---- MODULE Spec2Model ----
(***************************************************************************)
(* A model of the normalization engine of espn_data/processor.py:          *)
(* get_broadcasts, get_primary_broadcast, get_game_details,                *)
(* process_game_data, process_game_with_season and process_all_games.      *)
(*                                                                         *)
(* Python values are tagged records V(t, n, s): t is the Python type, n    *)
(* the number (floats are kept in tenths), s the text (a sequence of       *)
(* one-character strings, or a one-element sequence holding an opaque      *)
(* word).  A Python dict with dynamic keys is a function whose DOMAIN is   *)
(* the set of its keys.  An optional JSON member is a sequence of length   *)
(* at most one: <<>> when the key is absent, <<v>> when it is present.     *)
(***************************************************************************)
EXTENDS Integers, Sequences, FiniteSets, TLC

\* ------------------------------------------------------------------ bounds
MaxStrLen == 4
MaxPlays == 3
MaxCompetitors == 3
MaxBroadcasts == 2
MaxGames == 3
MaxStats == 2
MaxRows == 2
MaxStatRows == 11
MaxConcurrency == 2

\* ------------------------------------------------------------------ values
V(t, n, s) == [t |-> t, n |-> n, s |-> s]
IntV(n) == V("int", n, <<>>)
FloatV(n) == V("float", n, <<>>)
StrV(s) == V("str", 0, s)
Txt(w) == V("str", 0, <<w>>)
BoolV(b) == V("bool", IF b THEN 1 ELSE 0, <<>>)
NaN == V("nan", 0, <<>>)
None == V("none", 0, <<>>)

\* bool(x) of a Python value: None, False, 0, "" and NaN-free empties are falsy
Truthy(v) ==
    CASE v.t = "none" -> FALSE
      [] v.t = "bool" -> v.n = 1
      [] v.t = "int" -> v.n # 0
      [] v.t = "float" -> v.n # 0
      [] v.t = "str" -> Len(v.s) > 0
      [] OTHER -> TRUE

\* pandas isna(): None and NaN are both null in a table
IsNull(v) == v.t \in {"none", "nan"}

\* dict[k] = v
Put(d, k, v) == [x \in (DOMAIN d) \cup {k} |-> IF x = k THEN v ELSE d[x]]
\* dict.pop(k)
Pop(d, k) == [x \in (DOMAIN d) \ {k} |-> d[x]]
\* dict.get(k, None)
Get(d, k) == IF k \in DOMAIN d THEN d[k] ELSE None

\* optional JSON members
Absent == <<>>
Some(x) == <<x>>
Has(o) == Len(o) > 0
Val(o) == o[1]

\* ----------------------------------------------------------------- strings
Digits == {"0", "1", "2", "3", "4", "5", "6", "7", "8", "9"}
Chars == {"0", "1", "5", "7", "-", "a"}

DigitVal(c) ==
    CASE c = "0" -> 0 [] c = "1" -> 1 [] c = "2" -> 2 [] c = "3" -> 3
      [] c = "4" -> 4 [] c = "5" -> 5 [] c = "6" -> 6 [] c = "7" -> 7
      [] c = "8" -> 8 [] c = "9" -> 9

\* '-' in s
HasDash(s) == \E i \in 1..Len(s) : s[i] = "-"

\* s.split('-')
RECURSIVE Split(_)
Split(s) ==
    IF ~HasDash(s) THEN <<s>>
    ELSE LET k == CHOOSE i \in 1..Len(s) :
                      s[i] = "-" /\ \A j \in 1..(i - 1) : s[j] # "-"
         IN <<SubSeq(s, 1, k - 1)>> \o Split(SubSeq(s, k + 1, Len(s)))

\* int(p) succeeds (no ValueError) on a non-empty run of decimal digits
ParsesAsInt(p) == Len(p) > 0 /\ \A i \in 1..Len(p) : p[i] \in Digits

\* int(p)
RECURSIVE ToInt(_)
ToInt(p) ==
    IF Len(p) = 0 THEN 0
    ELSE 10 * ToInt(SubSeq(p, 1, Len(p) - 1)) + DigitVal(p[Len(p)])

\* round(num / den, 0) as Python rounds a float: to nearest, ties to even
RoundHalfEven(num, den) ==
    LET q == num \div den
        r == num % den
    IN IF 2 * r < den THEN q
       ELSE IF 2 * r > den THEN q + 1
       ELSE IF q % 2 = 0 THEN q ELSE q + 1

\* the percentage cut to one decimal place instead of rounded
Pct_truncated(made, attempted) ==
    IF attempted > 0 THEN FloatV((1000 * made) \div attempted)
    ELSE IntV(0)

\* round(made / attempted * 100 if attempted > 0 else 0, 1); FloatV is in tenths
Pct(made, attempted) ==
    IF attempted > 0 THEN FloatV(RoundHalfEven(1000 * made, attempted))
    ELSE IntV(0)

\* made, attempted = s.split('-'); int(made); int(attempted) raises ValueError
SplitFails(s) ==
    LET parts == Split(s)
    IN Len(parts) # 2 \/ ~ParsesAsInt(parts[1]) \/ ~ParsesAsInt(parts[2])

CompositeCols == <<"FG", "3PT", "FT">>

\* the three derived fields set to NaN
PutNaN3(rec, col) ==
    Put(Put(Put(rec, col \o "_MADE", NaN), col \o "_ATT", NaN), col \o "_PCT", NaN)

\* the three derived fields of a string that splits into two integers
PutParsed3(rec, col, s) ==
    LET made == ToInt(Split(s)[1])
        attempted == ToInt(Split(s)[2])
    IN Put(Put(Put(rec, col \o "_MADE", IntV(made)), col \o "_ATT", IntV(attempted)),
           col \o "_PCT", Pct(made, attempted))

\* ------------------------------------------------- player stat normalizer
\* for i, key in enumerate(stat_keys): the athlete's stats array is copied
\* under the label of its position, or under the key when no label exists
RECURSIVE AddStats(_, _, _, _, _)
AddStats(rec, stat_keys, stat_labels, stat_values, i) ==
    IF i > Len(stat_keys) THEN rec
    ELSE IF i > Len(stat_values) THEN AddStats(rec, stat_keys, stat_labels, stat_values, i + 1)
    ELSE IF i <= Len(stat_labels)
         THEN AddStats(Put(rec, stat_labels[i], stat_values[i]),
                       stat_keys, stat_labels, stat_values, i + 1)
         ELSE AddStats(Put(rec, stat_keys[i], stat_values[i]),
                       stat_keys, stat_labels, stat_values, i + 1)

\* one turn of "for column_name in ['FG', '3PT', 'FT']" on a player record
PlayerComposite(rec, col, dnp) ==
    IF col \in DOMAIN rec /\ rec[col].t = "str" /\ HasDash(rec[col].s)
    THEN IF SplitFails(rec[col].s) THEN PutNaN3(rec, col)
         ELSE PutParsed3(rec, col, rec[col].s)
    ELSE IF dnp THEN PutNaN3(rec, col)
    ELSE rec

RECURSIVE PlayerComposites(_, _, _)
PlayerComposites(rec, dnp, i) ==
    IF i > Len(CompositeCols) THEN rec
    ELSE PlayerComposites(PlayerComposite(rec, CompositeCols[i], dnp), dnp, i + 1)

rename_map ==
    << <<"minutes", "MIN">>, <<"offensiveRebounds", "OREB">>,
       <<"defensiveRebounds", "DREB">>, <<"rebounds", "REB">>,
       <<"assists", "AST">>, <<"steals", "STL">>, <<"blocks", "BLK">>,
       <<"turnovers", "TO">>, <<"fouls", "PF">>, <<"points", "PTS">> >>

\* if old_name in player_record: player_record[new_name] = player_record.pop(old_name)
RECURSIVE PlayerRename(_, _)
PlayerRename(rec, i) ==
    IF i > Len(rename_map) THEN rec
    ELSE LET old_name == rename_map[i][1]
             new_name == rename_map[i][2]
         IN IF old_name \in DOMAIN rec
            THEN PlayerRename(Put(Pop(rec, old_name), new_name, rec[old_name]), i + 1)
            ELSE PlayerRename(rec, i + 1)

stat_fields == <<"MIN", "OREB", "DREB", "REB", "AST", "STL", "BLK", "TO", "PF", "PTS">>

\* if dnp: every basic stat field is set to NaN
RECURSIVE PlayerDnpFields(_, _)
PlayerDnpFields(rec, i) ==
    IF i > Len(stat_fields) THEN rec
    ELSE PlayerDnpFields(Put(rec, stat_fields[i], NaN), i + 1)

\* the team header of a box-score section: id, displayName, abbreviation
TeamField(team_data, f) ==
    IF Has(team_data.team) THEN Val(team_data.team)[f] ELSE None

\* the player_record of one athlete of one statistics group
PlayerRecord(game_id, team_data, stat, athlete) ==
    LET dnp == Truthy(athlete.didNotPlay)
        starter == Truthy(athlete.starter)
        base == [game_id |-> game_id,
                 team_id |-> TeamField(team_data, "id"),
                 team_name |-> TeamField(team_data, "displayName"),
                 team_abbrev |-> TeamField(team_data, "abbreviation"),
                 player_id |-> athlete.id,
                 player_name |-> athlete.displayName,
                 position |-> athlete.position,
                 jersey |-> athlete.jersey,
                 starter |-> BoolV(starter),
                 dnp |-> BoolV(dnp)]
        withStats == AddStats(base, stat.keys, stat.labels, athlete.stats, 1)
        withComposite == PlayerComposites(withStats, dnp, 1)
        renamed == PlayerRename(withComposite, 1)
    IN IF dnp THEN PlayerDnpFields(renamed, 1) ELSE renamed

\* the athletes of one statistics group, in order
RECURSIVE GroupPlayers(_, _, _, _)
GroupPlayers(game_id, team_data, stat, i) ==
    IF i > Len(stat.athletes) THEN <<>>
    ELSE <<PlayerRecord(game_id, team_data, stat, stat.athletes[i])>>
         \o GroupPlayers(game_id, team_data, stat, i + 1)

\* the statistics groups of one team section, in order
RECURSIVE TeamPlayers(_, _, _)
TeamPlayers(game_id, team_data, i) ==
    IF i > Len(team_data.statistics) THEN <<>>
    ELSE GroupPlayers(game_id, team_data, team_data.statistics[i], 1)
         \o TeamPlayers(game_id, team_data, i + 1)

\* for team_data in game_data['boxscore']['players']
RECURSIVE AllPlayers(_, _, _)
AllPlayers(game_id, players, i) ==
    IF i > Len(players) THEN <<>>
    ELSE TeamPlayers(game_id, players[i], 1) \o AllPlayers(game_id, players, i + 1)

\* --------------------------------------------------- team stat normalizer
\* a step that may raise: raised is "" or the name of the exception
Ok(x) == [raised |-> "", value |-> x]
Raise(e, x) == [raised |-> e, value |-> x]

LowerChar(c) ==
    CASE c = "N" -> "n" [] c = "A" -> "a" [] OTHER -> c

\* s.lower()
LowerStr(s) == [i \in 1..Len(s) |-> LowerChar(s[i])]

\* s.replace('.', '', 1)
DropFirstDot(s) ==
    IF \E i \in 1..Len(s) : s[i] = "."
    THEN LET k == CHOOSE i \in 1..Len(s) : s[i] = "." /\ \A j \in 1..(i - 1) : s[j] # "."
         IN SubSeq(s, 1, k - 1) \o SubSeq(s, k + 1, Len(s))
    ELSE s

\* s.replace('.', '', 1).isdigit()
IsNumeric(s) == ParsesAsInt(DropFirstDot(s))

\* float(s): the float is kept as its decimal text
FloatText(s) == V("float", 0, s)

\* int(x) of the header score; fails is the ValueError / TypeError case
IntFails(v) ==
    CASE v.t = "int" -> FALSE
      [] v.t = "bool" -> FALSE
      [] v.t = "str" -> ~ParsesAsInt(v.s)
      [] OTHER -> TRUE

IntOf(v) == IF v.t = "str" THEN ToInt(v.s) ELSE v.n

\* for team_info in game_details["teams"]: the first team with the same id
\* gives PTS = int(score), or 0 when int() raises
HeaderPts(rec, teams, team_id) ==
    IF \E i \in 1..Len(teams) : teams[i].id = team_id
    THEN LET k == CHOOSE i \in 1..Len(teams) :
                      teams[i].id = team_id /\ \A j \in 1..(i - 1) : teams[j].id # team_id
         IN IF IntFails(teams[k].score) THEN Put(rec, "PTS", IntV(0))
            ELSE Put(rec, "PTS", IntV(IntOf(teams[k].score)))
    ELSE rec

\* stat.get('abbreviation') or stat.get('label') or stat.get('name')
ColumnName(stat) ==
    IF Truthy(stat.abbreviation) THEN stat.abbreviation
    ELSE IF Truthy(stat.label) THEN stat.label
    ELSE stat.name

\* the elif chain after the composite branch: plain numbers, then empties
TeamPlain(rec, col, dv) ==
    IF dv.t # "str" THEN Raise("AttributeError", rec)
    ELSE IF IsNumeric(dv.s)
         THEN IF \E i \in 1..Len(dv.s) : dv.s[i] = "."
              THEN Ok(Put(rec, col, FloatText(dv.s)))
              ELSE Ok(Put(rec, col, IntV(ToInt(dv.s))))
    ELSE IF Len(dv.s) = 0 \/ LowerStr(dv.s) \in {<<"n", "/", "a">>, <<"-">>}
         THEN Ok(Put(rec, col, NaN))
    ELSE Ok(rec)

\* one statistic of a team section, without the "column_name in team_record" test
TeamStat_overwrite(rec, stat) ==
    LET cv == ColumnName(stat)
        dv == stat.displayValue
    IN IF ~Truthy(cv) THEN Ok(rec)
       ELSE LET col == cv.s[1]
                stored == Put(rec, col, dv)
            IN IF col \in {"FG", "3PT", "FT"}
               THEN IF dv.t # "str" THEN Raise("TypeError", stored)
                    ELSE IF HasDash(dv.s)
                         THEN IF SplitFails(dv.s) THEN Ok(PutNaN3(stored, col))
                              ELSE Ok(PutParsed3(stored, col, dv.s))
                    ELSE TeamPlain(stored, col, dv)
               ELSE TeamPlain(stored, col, dv)

\* one statistic of a team section
TeamStat(rec, stat) ==
    LET cv == ColumnName(stat)
        dv == stat.displayValue
    IN IF ~Truthy(cv) \/ cv.s[1] \in DOMAIN rec THEN Ok(rec)
       ELSE LET col == cv.s[1]
                stored == Put(rec, col, dv)
            IN IF col \in {"FG", "3PT", "FT"}
               THEN IF dv.t # "str" THEN Raise("TypeError", stored)
                    ELSE IF HasDash(dv.s)
                         THEN IF SplitFails(dv.s) THEN Ok(PutNaN3(stored, col))
                              ELSE Ok(PutParsed3(stored, col, dv.s))
                    ELSE TeamPlain(stored, col, dv)
               ELSE TeamPlain(stored, col, dv)

\* for stat in team_data['statistics']
RECURSIVE TeamStatLoop(_, _, _)
TeamStatLoop(rec, stats, i) ==
    IF i > Len(stats) THEN Ok(rec)
    ELSE LET r == TeamStat(rec, stats[i])
         IN IF r.raised # "" THEN r ELSE TeamStatLoop(r.value, stats, i + 1)

verbose_map ==
    << <<"Rebounds", "REB">>, <<"Offensive Rebounds", "OREB">>,
       <<"Defensive Rebounds", "DREB">>, <<"Assists", "AST">>,
       <<"Steals", "STL">>, <<"Blocks", "BLK">>, <<"Turnovers", "TO">>,
       <<"Fouls", "PF">> >>

\* a verbose label moves to its abbreviation only when the abbreviation is missing
RECURSIVE TeamVerbose(_, _)
TeamVerbose(rec, i) ==
    IF i > Len(verbose_map) THEN rec
    ELSE LET old_name == verbose_map[i][1]
             new_name == verbose_map[i][2]
         IN IF old_name \in DOMAIN rec /\ new_name \notin DOMAIN rec
            THEN TeamVerbose(Put(Pop(rec, old_name), new_name, rec[old_name]), i + 1)
            ELSE TeamVerbose(rec, i + 1)

\* new name, or <<>> for a column that is only removed
standardize_map ==
    << <<"OR", <<"OREB">> >>, <<"DR", <<"DREB">> >>,
       <<"FG%", <<>> >>, <<"3P%", <<>> >>, <<"FT%", <<>> >> >>

RECURSIVE TeamStandardize(_, _)
TeamStandardize(rec, i) ==
    IF i > Len(standardize_map) THEN rec
    ELSE LET old_name == standardize_map[i][1]
             new_name == standardize_map[i][2]
         IN IF old_name \in DOMAIN rec
            THEN IF Len(new_name) > 0
                 THEN TeamStandardize(Pop(Put(rec, new_name[1], rec[old_name]), old_name), i + 1)
                 ELSE TeamStandardize(Pop(rec, old_name), i + 1)
            ELSE TeamStandardize(rec, i + 1)

\* the team_record of one box-score team section
TeamRecord(game_id, team_data, teams) ==
    LET team_id == TeamField(team_data, "id")
        base == [game_id |-> game_id,
                 team_id |-> team_id,
                 team_name |-> TeamField(team_data, "displayName"),
                 team_abbreviation |-> TeamField(team_data, "abbreviation"),
                 home_away |-> team_data.homeAway]
        withPts == HeaderPts(base, teams, team_id)
        r == TeamStatLoop(withPts, team_data.statistics, 1)
    IN IF r.raised # "" THEN r
       ELSE Ok(TeamStandardize(TeamVerbose(r.value, 1), 1))

\* for team_data in game_data['boxscore']['teams']
RECURSIVE AllTeamStats(_, _, _, _)
AllTeamStats(game_id, box_teams, teams, i) ==
    IF i > Len(box_teams) THEN Ok(<<>>)
    ELSE LET r == TeamRecord(game_id, box_teams[i], teams)
         IN IF r.raised # "" THEN Raise(r.raised, <<>>)
            ELSE LET rest == AllTeamStats(game_id, box_teams, teams, i + 1)
                 IN IF rest.raised # "" THEN rest
                    ELSE Ok(<<r.value>> \o rest.value)

\* ------------------------------------------------------------ broadcasts
LowerWord(w) ==
    CASE w = "TV" -> "tv" [] w = "Radio" -> "radio"
      [] w = "National" -> "national" [] w = "Local" -> "local"
      [] OTHER -> w

\* broadcast.get('market', {}).get('type', '').lower() and the same for
\* type.shortName: a missing member reads as ''
MemberLower(o) == IF Has(o) THEN LowerWord(Val(o).s[1]) ELSE ""

\* broadcast.get(...).get(..., None)
MemberOrNone(o) == IF Has(o) THEN Val(o) ELSE None

\* a list member read with .get(key, []): absent reads as the empty list
ListOf(o) == IF Has(o) THEN Val(o) ELSE <<>>

\* game_data.get('header', {}).get('competitions', [{}])[0].get('broadcasts', [])
HeaderBroadcasts(game_data) ==
    IF ~Has(game_data.header) THEN Ok(<<>>)
    ELSE LET header == Val(game_data.header)
         IN IF ~Has(header.competitions) THEN Ok(<<>>)
            ELSE IF Len(Val(header.competitions)) = 0 THEN Raise("IndexError", <<>>)
            ELSE Ok(ListOf(Val(header.competitions)[1].broadcasts))

\* a or b or c: the first non-empty list, else the last one
get_broadcasts(game_data) ==
    IF Len(ListOf(game_data.broadcasts)) > 0 THEN Ok(ListOf(game_data.broadcasts))
    ELSE LET h == HeaderBroadcasts(game_data)
         IN IF h.raised # "" THEN h
            ELSE IF Len(h.value) > 0 THEN h
            ELSE IF Has(game_data.gameInfo)
                 THEN Ok(ListOf(Val(game_data.gameInfo).broadcasts))
                 ELSE Ok(<<>>)

IsTv(b) == MemberLower(b.type) = "tv"
IsNational(b) == MemberLower(b.market) = "national"

\* the index of the first broadcast that satisfies P(_), 0 when none does
FirstIndex(broadcasts, P(_)) ==
    IF \E i \in 1..Len(broadcasts) : P(broadcasts[i])
    THEN CHOOSE i \in 1..Len(broadcasts) :
             P(broadcasts[i]) /\ \A j \in 1..(i - 1) : ~P(broadcasts[j])
    ELSE 0

\* the four loops of get_primary_broadcast over a non-empty list
PrimaryOf(broadcasts) ==
    LET TvNational(b) == IsTv(b) /\ IsNational(b)
        i1 == FirstIndex(broadcasts, TvNational)
        i2 == FirstIndex(broadcasts, IsTv)
        i3 == FirstIndex(broadcasts, IsNational)
    IN IF i1 > 0 THEN broadcasts[i1]
       ELSE IF i2 > 0 THEN broadcasts[i2]
       ELSE IF i3 > 0 THEN broadcasts[i3]
       ELSE broadcasts[1]

\* value is <<>> for None, <<broadcast>> otherwise
get_primary_broadcast(game_data) ==
    LET r == get_broadcasts(game_data)
    IN IF r.raised # "" THEN r
       ELSE IF Len(r.value) = 0 THEN Ok(<<>>)
       ELSE Ok(<<PrimaryOf(r.value)>>)

\* ------------------------------------------------------- get_game_details
\* header.competitions is present, a list, and not empty
HasCompetition(game_data) ==
    /\ Has(game_data.header)
    /\ Has(Val(game_data.header).competitions)
    /\ Len(Val(Val(game_data.header).competitions)) > 0

Competition(game_data) == Val(Val(game_data.header).competitions)[1]

\* the if / elif chain over gameId, header.id, competitions[0].id, file name
GameIdOf(game_data, filename) ==
    IF Has(game_data.gameId) THEN Val(game_data.gameId)
    ELSE IF Has(game_data.header) /\ Has(Val(game_data.header).id)
         THEN Val(Val(game_data.header).id)
    ELSE IF HasCompetition(game_data) /\ Has(Competition(game_data).id)
         THEN Val(Competition(game_data).id)
    ELSE IF Has(filename) /\ Truthy(Val(filename)) /\ Val(filename) # Txt("unknown")
         THEN Val(filename)
    ELSE Txt("unknown")

\* status_type: competitions[0]['status'].get('type', {}) when the header has a
\* competitions member, the top-level status only in the elif of that test.
\* Absent stands for None and for the default {}.
StatusType(game_data) ==
    IF Has(game_data.header) /\ Has(Val(game_data.header).competitions)
    THEN IF HasCompetition(game_data) /\ Has(Competition(game_data).status)
         THEN Val(Competition(game_data).status).type
         ELSE Absent
    ELSE IF Has(game_data.status) THEN Val(game_data.status).type
    ELSE Absent

\* if status_type and isinstance(status_type, dict): an empty mapping is falsy
StatusTruthy(status_type) ==
    Has(status_type) /\ (Has(Val(status_type).name) \/ Has(Val(status_type).completed))

StatusName(status_type) ==
    IF StatusTruthy(status_type) /\ Has(Val(status_type).name)
    THEN Val(Val(status_type).name) ELSE None

StatusCompleted(status_type) ==
    IF StatusTruthy(status_type) /\ Has(Val(status_type).completed)
    THEN Val(Val(status_type).completed) ELSE BoolV(FALSE)

\* venue_data = game_data.get('gameInfo', {}).get('venue', {})
VenueData(game_data) ==
    IF Has(game_data.gameInfo) THEN Val(game_data.gameInfo).venue ELSE Absent

VenuePart(venue_data, f) == IF Has(venue_data) THEN Val(venue_data)[f] ELSE None

\* the team_info of one competitor that has a team mapping
TeamInfo(team) ==
    LET t == Val(team.team)
        info == [id |-> t.id,
                 name |-> t.displayName,
                 abbreviation |-> t.abbreviation,
                 location |-> t.location,
                 nickname |-> t.name,
                 color |-> t.color,
                 home_away |-> team.homeAway,
                 score |-> team.score,
                 winner |-> IF Has(team.winner) THEN Val(team.winner) ELSE BoolV(FALSE),
                 groups_slug |-> IF Has(t.groups) THEN Val(t.groups).slug ELSE None]
    IN IF Has(team.linescores) THEN Put(info, "linescores", Val(team.linescores))
       ELSE info

\* for team in competition['competitors']: one entry per competitor with a team
RECURSIVE TeamsOf(_, _)
TeamsOf(competitors, i) ==
    IF i > Len(competitors) THEN <<>>
    ELSE IF Has(competitors[i].team)
         THEN <<TeamInfo(competitors[i])>> \o TeamsOf(competitors, i + 1)
         ELSE TeamsOf(competitors, i + 1)

ExtractTeams(game_data) ==
    IF HasCompetition(game_data) /\ Has(Competition(game_data).competitors)
    THEN TeamsOf(Val(Competition(game_data).competitors), 1)
    ELSE <<>>

\* team_lookup[team["id"]]: a later team with the same id replaces an earlier one
LookupTeamName(teams, team_id) ==
    LET k == CHOOSE i \in 1..Len(teams) :
                 teams[i].id = team_id /\ \A j \in (i + 1)..Len(teams) : teams[j].id # team_id
    IN teams[k].name

\* the back-fill of play['team']['name']
FillTeam(play, teams) ==
    IF play.kind = "dict" /\ Has(play.team)
    THEN LET team == Val(play.team)
         IN IF Truthy(team.id) /\ ~Truthy(team.name)
               /\ \E i \in 1..Len(teams) : teams[i].id = team.id
            THEN [play EXCEPT !.team = Some([team EXCEPT !.name = LookupTeamName(teams, team.id)])]
            ELSE play
    ELSE play

\* the athletes of one statistics group: the first one with the id, then break
GroupName(stat_group, player_id, current) ==
    IF \E i \in 1..Len(stat_group.athletes) : stat_group.athletes[i].id = player_id
    THEN LET k == CHOOSE i \in 1..Len(stat_group.athletes) :
                      /\ stat_group.athletes[i].id = player_id
                      /\ \A j \in 1..(i - 1) : stat_group.athletes[j].id # player_id
         IN IF stat_group.athletes[k].displayName.t = "none" THEN V("str", 0, <<>>)
            ELSE stat_group.athletes[k].displayName
    ELSE current

RECURSIVE GroupsName(_, _, _, _)
GroupsName(stats, player_id, current, i) ==
    IF i > Len(stats) THEN current
    ELSE GroupsName(stats, player_id, GroupName(stats[i], player_id, current), i + 1)

\* for team_players in game_data['boxscore']['players']
RECURSIVE BoxName(_, _, _, _)
BoxName(players, player_id, current, i) ==
    IF i > Len(players) THEN current
    ELSE BoxName(players, player_id,
                 GroupsName(players[i].statistics, player_id, current, 1), i + 1)

BoxPlayers(game_data) ==
    IF Has(game_data.boxscore) THEN Val(game_data.boxscore).players ELSE <<>>

BoxTeams(game_data) ==
    IF Has(game_data.boxscore) THEN Val(game_data.boxscore).teams ELSE <<>>

\* the back-fill of play['athlete1' / 'athlete2']['displayName']
FillAthlete(o, game_data) ==
    IF Has(o) /\ Truthy(Val(o).id) /\ ~Truthy(Val(o).displayName)
    THEN Some([Val(o) EXCEPT !.displayName =
                   BoxName(BoxPlayers(game_data), Val(o).id, Val(o).displayName, 1)])
    ELSE o

\* one turn of "for play in game_data['plays']".  The athlete loop is not
\* under the isinstance(play, dict) test: 'athlete1' in play raises TypeError
\* on null and on a number, and is a substring test on a string.
FillPlay(play, teams, game_data) ==
    LET p1 == FillTeam(play, teams)
    IN IF play.kind \in {"null", "num"} THEN Raise("TypeError", play)
       ELSE IF play.kind = "str" THEN Ok(play)
       ELSE Ok([p1 EXCEPT !.athlete1 = FillAthlete(p1.athlete1, game_data),
                          !.athlete2 = FillAthlete(p1.athlete2, game_data)])

\* the plays before the one that raised are already changed in place
RECURSIVE FillPlays(_, _, _, _)
FillPlays(plays, teams, game_data, i) ==
    IF i > Len(plays) THEN Ok(plays)
    ELSE LET r == FillPlay(plays[i], teams, game_data)
         IN IF r.raised # "" THEN Raise(r.raised, plays)
            ELSE FillPlays([plays EXCEPT ![i] = r.value], teams, game_data, i + 1)

\* the game_details mapping as it is built before the plays are touched
DetailsOf(game_id, venue_data, status_type, broadcast, teams) ==
    [game_id |-> game_id,
     status |-> StatusName(status_type),
     completed |-> StatusCompleted(status_type),
     venue_id |-> VenuePart(venue_data, "id"),
     venue_name |-> VenuePart(venue_data, "fullName"),
     venue_city |-> VenuePart(venue_data, "city"),
     venue_state |-> VenuePart(venue_data, "state"),
     broadcast |-> IF Has(broadcast) THEN MemberOrNone(Val(broadcast).media) ELSE None,
     broadcast_market |-> IF Has(broadcast) THEN MemberOrNone(Val(broadcast).market)
                          ELSE None,
     broadcast_type |-> IF Has(broadcast) THEN MemberOrNone(Val(broadcast).type) ELSE None,
     teams |-> teams]

\* the end of the call: f is what the back-fill loop over the plays did
AfterFill(game_data, details, f) ==
    IF f.raised # ""
    THEN Raise(f.raised, [details |-> details,
                          game_data |-> [game_data EXCEPT !.plays = Some(f.value)]])
    ELSE Ok([details |-> details,
             game_data |-> [game_data EXCEPT !.plays = Some(f.value)]])

\* the call from the broadcast lookup on: b is what get_primary_broadcast did
DetailsAndFill(game_data, details, b) ==
    IF b.raised # "" THEN Raise(b.raised, [details |-> details, game_data |-> game_data])
    ELSE IF ~Has(game_data.plays) THEN Ok([details |-> details, game_data |-> game_data])
    ELSE AfterFill(game_data, details,
                   FillPlays(Val(game_data.plays), details.teams, game_data, 1))

\* the call as it would be if the identifier were taken with game_data.pop('gameId')
DetailsWith_pop(game_data, game_id, b) ==
    DetailsAndFill([game_data EXCEPT !.gameId = Absent],
                   DetailsOf(game_id, VenueData(game_data), StatusType(game_data), b.value,
                             ExtractTeams(game_data)),
                   b)

DetailsWith(game_data, game_id, b) ==
    DetailsAndFill(game_data,
                   DetailsOf(game_id, VenueData(game_data), StatusType(game_data), b.value,
                             ExtractTeams(game_data)),
                   b)

\* value.details is the returned game_details, value.game_data the document
\* as the call leaves it
get_game_details(game_data, filename) ==
    DetailsWith(game_data, GameIdOf(game_data, filename), get_primary_broadcast(game_data))

\* ------------------------------------------------------ process_game_data
\* {} as returned by get_game_data when the request fails or answers nothing
EmptyDoc ==
    [kind |-> "dict", gameId |-> Absent, header |-> Absent, broadcasts |-> Absent,
     gameInfo |-> Absent, venue |-> Absent, boxscore |-> Absent, plays |-> Absent,
     status |-> Absent]

\* get_game_data: a request that raised (reply absent) or answered nothing (null
\* or {}) gives {}; otherwise the reply is saved to the store and returned
NoData(reply) == ~Has(reply) \/ Val(reply).kind = "none" \/ Val(reply) = EmptyDoc

get_game_data(reply) == IF NoData(reply) THEN EmptyDoc ELSE Val(reply)

\* the raw document of the event: load_json of its file, else a fetch
LoadRaw(doc_file, reply) == IF Has(doc_file) THEN Val(doc_file) ELSE get_game_data(reply)

\* the file of the event after the call: a fetched reply has been saved
StoreAfter(doc_file, reply) ==
    IF Has(doc_file) THEN doc_file ELSE IF NoData(reply) THEN Absent ELSE reply

GameInfoRow(game_id, details) ==
    [game_id |-> game_id,
     venue_id |-> details.venue_id,
     venue_name |-> details.venue_name,
     venue_city |-> details.venue_city,
     venue_state |-> details.venue_state,
     broadcast |-> details.broadcast,
     broadcast_market |-> details.broadcast_market,
     broadcast_type |-> details.broadcast_type]

RECURSIVE OfficialRows(_, _, _)
OfficialRows(game_id, officials, i) ==
    IF i > Len(officials) THEN <<>>
    ELSE <<[game_id |-> game_id, name |-> officials[i].fullName,
            position |-> officials[i].position, order |-> officials[i].order]>>
         \o OfficialRows(game_id, officials, i + 1)

Officials(game_data) ==
    IF Has(game_data.gameInfo) THEN Val(game_data.gameInfo).officials ELSE <<>>

RECURSIVE BroadcastRows(_, _, _)
BroadcastRows(game_id, broadcasts, i) ==
    IF i > Len(broadcasts) THEN <<>>
    ELSE <<[game_id |-> game_id,
            type |-> MemberOrNone(broadcasts[i].type),
            market |-> MemberOrNone(broadcasts[i].market),
            media |-> MemberOrNone(broadcasts[i].media)]>>
         \o BroadcastRows(game_id, broadcasts, i + 1)

\* ','.join(str(score) for score in team['linescores'])
RECURSIVE JoinComma(_, _)
JoinComma(vals, i) ==
    IF i > Len(vals) THEN <<>>
    ELSE IF i = 1 THEN vals[i].s \o JoinComma(vals, i + 1)
    ELSE <<",">> \o vals[i].s \o JoinComma(vals, i + 1)

TeamsInfoRow(game_id, team) ==
    LET row == [game_id |-> game_id,
                team_id |-> team.id,
                team_name |-> team.name,
                team_abbreviation |-> team.abbreviation,
                team_location |-> team.location,
                team_nickname |-> team.nickname,
                team_color |-> team.color,
                home_away |-> team.home_away,
                score |-> team.score,
                winner |-> team.winner,
                groups_slug |-> team.groups_slug]
    IN IF "linescores" \in DOMAIN team
       THEN Put(row, "linescores", StrV(JoinComma(team.linescores, 1)))
       ELSE row

RECURSIVE TeamsInfoRows(_, _, _)
TeamsInfoRows(game_id, teams, i) ==
    IF i > Len(teams) THEN <<>>
    ELSE <<TeamsInfoRow(game_id, teams[i])>> \o TeamsInfoRows(game_id, teams, i + 1)

\* team_lookup / player_lookup: ids are compared as str(id); the last row
\* with the id gives the name
HasRowWith(rows, key, id) ==
    \E i \in 1..Len(rows) : Truthy(rows[i][key]) /\ rows[i][key].s = id.s

NameOfRow(rows, key, name, id) ==
    LET k == CHOOSE i \in 1..Len(rows) :
                 /\ Truthy(rows[i][key]) /\ rows[i][key].s = id.s
                 /\ \A j \in (i + 1)..Len(rows) :
                        ~(Truthy(rows[j][key]) /\ rows[j][key].s = id.s)
    IN rows[k][name]

\* player_<n>_id, player_<n>_name of a play that has athlete<n>
PutAthlete(row, o, n) ==
    IF Has(o) THEN Put(Put(row, "player_" \o n \o "_id", Val(o).id),
                       "player_" \o n \o "_name", Val(o).displayName)
    ELSE row

\* the player name of a play row is filled from player_stats when it is empty
FillRowPlayer(row, player_stats, n) ==
    LET id_key == "player_" \o n \o "_id"
        name_key == "player_" \o n \o "_name"
    IN IF id_key \in DOMAIN row /\ name_key \in DOMAIN row
          /\ Truthy(row[id_key]) /\ ~Truthy(row[name_key])
          /\ HasRowWith(player_stats, "player_id", row[id_key])
       THEN Put(row, name_key, NameOfRow(player_stats, "player_id", "player_name", row[id_key]))
       ELSE row

\* the play_info of one play mapping
PlayInfo(game_id, play, teams_info, player_stats) ==
    LET base == [game_id |-> game_id,
                 play_id |-> play.id,
                 sequence_number |-> play.sequenceNumber,
                 team_id |-> IF Has(play.team) THEN Val(play.team).id ELSE None,
                 team_name |-> IF Has(play.team) THEN Val(play.team).name ELSE None]
        withAthletes == PutAthlete(PutAthlete(base, play.athlete1, "1"), play.athlete2, "2")
        withTeam == IF Truthy(withAthletes.team_id) /\ ~Truthy(withAthletes.team_name)
                       /\ HasRowWith(teams_info, "team_id", withAthletes.team_id)
                    THEN Put(withAthletes, "team_name",
                             NameOfRow(teams_info, "team_id", "team_name", withAthletes.team_id))
                    ELSE withAthletes
    IN FillRowPlayer(FillRowPlayer(withTeam, player_stats, "1"), player_stats, "2")

\* the rows collected in the opposite order, as play_by_play.insert(0, ...) would
RECURSIVE PlayRows_reversed(_, _, _, _, _)
PlayRows_reversed(game_id, plays, teams_info, player_stats, i) ==
    IF i > Len(plays) THEN <<>>
    ELSE IF plays[i].kind # "dict"
         THEN PlayRows_reversed(game_id, plays, teams_info, player_stats, i + 1)
    ELSE PlayRows_reversed(game_id, plays, teams_info, player_stats, i + 1)
         \o <<PlayInfo(game_id, plays[i], teams_info, player_stats)>>

\* for play in game_data['plays']: an entry that is not a mapping is skipped
RECURSIVE PlayRows(_, _, _, _, _)
PlayRows(game_id, plays, teams_info, player_stats, i) ==
    IF i > Len(plays) THEN <<>>
    ELSE IF plays[i].kind # "dict"
         THEN PlayRows(game_id, plays, teams_info, player_stats, i + 1)
    ELSE <<PlayInfo(game_id, plays[i], teams_info, player_stats)>>
         \o PlayRows(game_id, plays, teams_info, player_stats, i + 1)

\* the columns of a table built from row mappings, and one of its cells
Columns(rows) == UNION {DOMAIN rows[i] : i \in 1..Len(rows)}
Cell(row, c) == IF c \in DOMAIN row THEN row[c] ELSE NaN

\* pd.DataFrame(rows): every row gets every column, NaN where it had no key
DataFrame(rows) == [i \in 1..Len(rows) |-> [c \in Columns(rows) |-> Cell(rows[i], c)]]

TableKinds ==
    {"game_info", "teams_info", "player_stats", "team_stats", "play_by_play",
     "officials", "broadcasts"}

EmptyData == [k \in TableKinds |-> <<>>]

Failure(game_id, season, error) ==
    [game_id |-> game_id, season |-> season, processed |-> FALSE, error |-> error]

Success(game_id, season, data) ==
    [game_id |-> game_id, season |-> season, processed |-> TRUE, data |-> data]

\* the result["data"] mapping: b is what get_broadcasts did, t what the team
\* statistics loop did
Tables(game_id, details, game_data, b, teams_info, player_stats, t) ==
    IF b.raised # "" THEN Raise(b.raised, EmptyData)
    ELSE IF t.raised # "" THEN Raise(t.raised, EmptyData)
    ELSE Ok([game_info |-> DataFrame(<<GameInfoRow(game_id, details)>>),
             teams_info |-> DataFrame(teams_info),
             player_stats |-> DataFrame(player_stats),
             team_stats |-> DataFrame(t.value),
             play_by_play |-> DataFrame(PlayRows(game_id, ListOf(game_data.plays),
                                                 teams_info, player_stats, 1)),
             officials |-> DataFrame(OfficialRows(game_id, Officials(game_data), 1)),
             broadcasts |-> DataFrame(BroadcastRows(game_id, b.value, 1))])

\* the extraction steps after get_game_details returned
ExtractFrom(game_id, details, game_data) ==
    Tables(game_id, details, game_data,
           get_broadcasts(game_data),
           TeamsInfoRows(game_id, details.teams, 1),
           AllPlayers(game_id, BoxPlayers(game_data), 1),
           AllTeamStats(game_id, BoxTeams(game_data), details.teams, 1))

ExtractDetails(game_id, d) ==
    IF d.raised # "" THEN Raise(d.raised, EmptyData)
    ELSE ExtractFrom(game_id, d.value.details, d.value.game_data)

\* the block under "if isinstance(game_data, dict)"
ExtractAll(game_id, raw) == ExtractDetails(game_id, get_game_details(raw, Some(game_id)))

\* the return of the try block: e is what the extraction did
Extracted(game_id, season, e) ==
    IF e.raised # "" THEN Raise(e.raised, Failure(game_id, season, None))
    ELSE Ok(Success(game_id, season, e.value))

\* the try block on the loaded document
TryRaw(game_id, season, raw) ==
    IF raw.kind = "none" THEN Ok(Failure(game_id, season, Txt("Raw data is None")))
    ELSE IF raw.kind # "dict" THEN Ok(Success(game_id, season, EmptyData))
    ELSE Extracted(game_id, season, ExtractAll(game_id, raw))

\* the body of the try block of process_game_data
TryBody(game_id, season, doc_file, reply) ==
    TryRaw(game_id, season, LoadRaw(doc_file, reply))

\* except Exception as e: the error is str(e)
ExceptGameData(game_id, season, r) ==
    IF r.raised # "" THEN Ok(Failure(game_id, season, Txt(r.raised))) ELSE r

\* the function without its except clause
process_game_data_no_except(game_id, season, doc_file, reply) ==
    TryBody(game_id, season, doc_file, reply)

process_game_data(game_id, season, doc_file, reply) ==
    ExceptGameData(game_id, season, TryBody(game_id, season, doc_file, reply))

\* the except clause of the worker
ExceptWithSeason(game_id, season, r) ==
    IF r.raised # "" THEN Ok(Failure(game_id, season, Txt("Error: " \o r.raised))) ELSE r

\* the worker: set_gender, process_game_data, and its own except clause
process_game_with_season(game_id, season, doc_file, reply) ==
    ExceptWithSeason(game_id, season, process_game_data(game_id, season, doc_file, reply))

\* ------------------------------------------------------------- the inputs
\* every sequence over S of length at most n
SeqsUpTo(S, n) == UNION {[1..k -> S] : k \in 0..n}

Season == 2023
TheGame == StrV(<<"4", "0", "1">>)

NoTeam == [id |-> None, displayName |-> None, abbreviation |-> None,
           location |-> None, name |-> None, color |-> None, groups |-> Absent]

\* ids are digit strings, as in the raw documents
TeamOf(id, name) == [NoTeam EXCEPT !.id = StrV(id), !.displayName = Txt(name)]

Competitor(id, name, home_away, score) ==
    [team |-> Some(TeamOf(id, name)), homeAway |-> Txt(home_away),
     score |-> StrV(score), winner |-> Absent, linescores |-> Absent]

NoCompetition == [id |-> Absent, broadcasts |-> Absent, venue |-> Absent,
                  competitors |-> Absent, status |-> Absent]

NoHeader == [id |-> Absent, competitions |-> Absent]

NoGameInfo == [venue |-> Absent, broadcasts |-> Absent, officials |-> <<>>]

NoBoxscore == [players |-> <<>>, teams |-> <<>>]

Venue(name, id) == [id |-> StrV(id), fullName |-> Txt(name),
                city |-> Txt(name \o "-city"), state |-> Txt(name \o "-state")]

Broadcast(type, market, media) ==
    [type |-> Some(Txt(type)), market |-> Some(Txt(market)), media |-> Some(Txt(media))]

DictPlay(id, seq) ==
    [kind |-> "dict", id |-> Txt(id), sequenceNumber |-> StrV(<<seq>>),
     team |-> Absent, athlete1 |-> Absent, athlete2 |-> Absent]

OtherPlay(kind) ==
    [kind |-> kind, id |-> None, sequenceNumber |-> None,
     team |-> Absent, athlete1 |-> Absent, athlete2 |-> Absent]

Athlete(id, name, dnp, stats) ==
    [id |-> StrV(id), displayName |-> Txt(name), position |-> None, jersey |-> None,
     starter |-> BoolV(FALSE), didNotPlay |-> BoolV(dnp), stats |-> stats]

TeamStatEntry(abbreviation, display_value) ==
    [abbreviation |-> Txt(abbreviation), label |-> None, name |-> None,
     displayValue |-> display_value]

\* a document whose only content is one composite statistic, given to one
\* athlete (with one plain statistic beside it) and to one team
StatDoc(col, str, dnp) ==
    [EmptyDoc EXCEPT !.boxscore = Some(
        [players |-> <<[team |-> Some(TeamOf(<<"5", "2">>, "Home")),
                        statistics |-> <<[keys |-> <<"k1", "points">>,
                                          labels |-> <<col>>,
                                          athletes |-> <<Athlete(<<"9">>, "Ann", dnp,
                                                         <<StrV(str), StrV(<<"7">>)>>)>>]>>]>>,
         teams |-> <<[team |-> Some(TeamOf(<<"5", "2">>, "Home")), homeAway |-> Txt("home"),
                      statistics |-> <<TeamStatEntry(col, StrV(str))>>]>>])]

StatDocs ==
    {StatDoc(CompositeCols[c], str, dnp) :
        c \in 1..Len(CompositeCols), str \in SeqsUpTo(Chars, MaxStrLen), dnp \in BOOLEAN}

CompetitorChoices ==
    {Competitor(<<"5", "2">>, "Home", "home", <<"7">>),
     Competitor(<<"5", "2">>, "Home", "away", <<"7">>),
     Competitor(<<"1", "9", "7">>, "Away", "home", <<"5">>),
     Competitor(<<"1", "9", "7">>, "Away", "away", <<"5">>)}

VenueChoices(name, id) == {Absent, Some(Venue(name, id))}

\* competitors and the three venue locations
TeamVenueDocs ==
    {[EmptyDoc EXCEPT
        !.header = Some([NoHeader EXCEPT !.competitions =
                       Some(<<[NoCompetition EXCEPT !.competitors = Some(cs), !.venue = hv]>>)]),
        !.gameInfo = Some([NoGameInfo EXCEPT !.venue = gv]),
        !.venue = tv] :
        cs \in SeqsUpTo(CompetitorChoices, MaxCompetitors),
        hv \in VenueChoices("HDR", <<"1">>), gv \in VenueChoices("GI", <<"2">>),
        tv \in VenueChoices("TOP", <<"3">>)}

BroadcastChoices(media) ==
    {Broadcast(type, market, media) :
        type \in {"TV", "tv", "Radio"}, market \in {"National", "national", "Local"}}

\* the header as far as broadcasts go: missing, without competitions, with an
\* empty competitions list, or with one competition
HeaderChoices ==
    {Absent, Some(NoHeader), Some([NoHeader EXCEPT !.competitions = Some(<<>>)])}
    \cup {Some([NoHeader EXCEPT !.competitions =
                   Some(<<[NoCompetition EXCEPT !.broadcasts = b]>>)]) :
             b \in {Absent, Some(<<>>), Some(<<Broadcast("Radio", "Local", "HDR")>>),
                    Some(<<Broadcast("tv", "National", "HDR")>>)}}

GameInfoChoices ==
    {Absent, Some(NoGameInfo),
     Some([NoGameInfo EXCEPT !.broadcasts = Some(<<Broadcast("TV", "national", "GI")>>)])}

\* the three broadcast locations
BroadcastDocs ==
    {[EmptyDoc EXCEPT !.broadcasts = tb, !.header = h, !.gameInfo = gi] :
        tb \in {Absent} \cup {Some(l) : l \in SeqsUpTo(BroadcastChoices("TOP"), MaxBroadcasts)},
        h \in HeaderChoices, gi \in GameInfoChoices}

\* the raw plays array: entry i is a play mapping with id p<i> and sequence
\* number i, or a string, or null
PlayAt(kind, i) ==
    IF kind = "dict" THEN DictPlay("p" \o ToString(i), ToString(i)) ELSE OtherPlay(kind)

PlayDocs ==
    {[EmptyDoc EXCEPT !.plays = Some([i \in 1..Len(kinds) |-> PlayAt(kinds[i], i)])] :
        kinds \in SeqsUpTo({"dict", "str", "null"}, MaxPlays)}

\* an identifier member: missing, null, the empty string, or a value
IdChoices(id) == {Absent, Some(None), Some(StrV(<<>>)), Some(Txt(id))}

\* the three places of the document that can name the event
IdDocs ==
    {[EmptyDoc EXCEPT !.gameId = g, !.header = h] :
        g \in IdChoices("G1"),
        h \in {Absent}
              \cup {Some([NoHeader EXCEPT !.id = i]) : i \in IdChoices("G2")}
              \cup {Some([NoHeader EXCEPT !.id = i,
                              !.competitions = Some(<<[NoCompetition EXCEPT !.id = c]>>)]) :
                       i \in IdChoices("G2"), c \in IdChoices("G3")}}

\* the filename argument, as the base name without '.json': not given, the
\* event's file, or a file called unknown.json
FilenameChoices(doc) ==
    IF doc \in {Some(d) : d \in IdDocs}
    THEN {Absent, Some(Txt("G4")), Some(Txt("unknown"))}
    ELSE {Absent}

\* one play that names its team and its first athlete by id, with the header
\* team and the box-score athlete those ids belong to present or missing
FillDocs ==
    {[EmptyDoc EXCEPT
        !.gameId = g, !.header = h, !.boxscore = b,
        !.plays = Some(<<[DictPlay("p1", "1") EXCEPT !.team = t, !.athlete1 = a]>>)] :
        g \in {Absent, Some(Txt("G1"))},
        h \in {Absent,
               Some([NoHeader EXCEPT !.competitions = Some(
                   <<[NoCompetition EXCEPT !.competitors =
                          Some(<<Competitor(<<"5", "2">>, "Home", "home", <<"7">>)>>)]>>)])},
        b \in {Absent, StatDoc("FG", <<"7", "-", "9">>, FALSE).boxscore},
        t \in {Absent, Some([id |-> StrV(<<"5", "2">>), name |-> None]),
               Some([id |-> StrV(<<"5", "2">>), name |-> Txt("Given")])},
        a \in {Absent, Some([id |-> StrV(<<"9">>), displayName |-> None])}}

\* the statistics a team section can list: a PTS entry, plain numbers, verbose
\* labels beside their abbreviations, and entries without a display string
TeamStatChoices ==
    {TeamStatEntry("PTS", StrV(<<"9">>)), TeamStatEntry("AST", StrV(<<"3">>)),
     TeamStatEntry("AST", None), TeamStatEntry("AST", IntV(3)), TeamStatEntry("FG", None),
     TeamStatEntry("Rebounds", StrV(<<"5">>)), TeamStatEntry("REB", StrV(<<"6">>))}

\* a box score with one team section; the header lists that team, another
\* team, or no team
TeamStatsDocs ==
    {[EmptyDoc EXCEPT
        !.header = Some([NoHeader EXCEPT !.competitions =
                       Some(<<[NoCompetition EXCEPT !.competitors = Some(cs)]>>)]),
        !.boxscore = Some([players |-> <<>>,
                           teams |-> <<[team |-> Some(TeamOf(<<"5", "2">>, "Home")),
                                        homeAway |-> Txt("home"),
                                        statistics |-> stats]>>])] :
        cs \in {<<>>, <<Competitor(<<"5", "2">>, "Home", "home", <<"7">>)>>,
                <<Competitor(<<"1", "9", "7">>, "Away", "away", <<"5">>)>>},
        stats \in SeqsUpTo(TeamStatChoices, MaxStats)}

\* the header team of the box score's one section has no score, or a score
\* that is no number; the section lists a PTS statistic or nothing
ScoreDocs ==
    {[EmptyDoc EXCEPT
        !.header = Some([NoHeader EXCEPT !.competitions =
                       Some(<<[NoCompetition EXCEPT !.competitors = Some(
                           <<[Competitor(<<"5", "2">>, "Home", "home", <<"7">>)
                                 EXCEPT !.score = score]>>)]>>)]),
        !.boxscore = Some([players |-> <<>>,
                           teams |-> <<[team |-> Some(TeamOf(<<"5", "2">>, "Home")),
                                        homeAway |-> Txt("home"),
                                        statistics |-> stats]>>])] :
        score \in {None, Txt("x")},
        stats \in {<<>>, <<TeamStatEntry("PTS", StrV(<<"9">>))>>}}

\* the box score of StatDoc with a second value under the canonical label of
\* rename_map[i] and a third one, beyond the labels, under its camelCase key
AliasDoc(i, dnp) ==
    [EmptyDoc EXCEPT !.boxscore = Some(
        [players |-> <<[team |-> Some(TeamOf(<<"5", "2">>, "Home")),
                        statistics |-> <<[keys |-> <<"k1", "k2", rename_map[i][1]>>,
                                          labels |-> <<"FG", rename_map[i][2]>>,
                                          athletes |-> <<Athlete(<<"9">>, "Ann", dnp,
                                                         <<StrV(<<"7", "-", "9">>),
                                                           StrV(<<"3", "0">>),
                                                           StrV(<<"1", "2">>)>>)>>]>>]>>,
         teams |-> <<[team |-> Some(TeamOf(<<"5", "2">>, "Home")), homeAway |-> Txt("home"),
                      statistics |-> <<TeamStatEntry("FG", StrV(<<"7", "-", "9">>))>>]>>])]

AliasDocs == {AliasDoc(i, dnp) : i \in 1..Len(rename_map), dnp \in BOOLEAN}

StatusTypeOf(name, completed) == [name |-> name, completed |-> completed]

\* a status member: missing, without type, with an empty type, with a type
\* that has a name only, or with a full type
StatusChoices(name, completed) ==
    {Absent, Some([type |-> Absent]),
     Some([type |-> Some(StatusTypeOf(Absent, Absent))]),
     Some([type |-> Some(StatusTypeOf(Some(Txt(name)), Absent))]),
     Some([type |-> Some(StatusTypeOf(Some(Txt(name)), Some(BoolV(completed))))])}

\* the two places of the status
StatusDocs ==
    {[EmptyDoc EXCEPT !.header = h, !.status = t] :
        h \in {Absent, Some(NoHeader)}
              \cup {Some([NoHeader EXCEPT !.competitions =
                             Some(<<[NoCompetition EXCEPT !.status = c]>>)]) :
                       c \in StatusChoices("STATUS_FINAL", TRUE)},
        t \in StatusChoices("STATUS_SCHEDULED", FALSE)}

\* team.groups of a competitor: id, slug and the parent group's name
Groups(id, slug, division) ==
    [id |-> Txt(id), slug |-> Txt(slug), parent |-> Some([name |-> Txt(division)])]

\* a competitor with or without team.groups and with or without linescores
\* (each line stands for its displayValue)
GroupCompetitors(id, name, home_away, conference) ==
    {[Competitor(id, name, home_away, <<"7">>) EXCEPT
         !.team = Some([TeamOf(id, name) EXCEPT !.groups = g]), !.linescores = l] :
        g \in {Absent, Some(Groups(conference, conference \o "-conference", "NCAA Division I"))},
        l \in {Absent, Some(<<>>), Some(<<StrV(<<"2", "1">>), StrV(<<"1", "8">>)>>)}}

\* a home team alone or with an away team
GroupDocs ==
    {[EmptyDoc EXCEPT !.header = Some([NoHeader EXCEPT !.competitions =
                          Some(<<[NoCompetition EXCEPT !.competitors = Some(cs)]>>)])] :
        cs \in {<<h>> : h \in GroupCompetitors(<<"5", "2">>, "Home", "home", "2")}
               \cup {<<h, a>> : h \in GroupCompetitors(<<"5", "2">>, "Home", "home", "2"),
                                a \in GroupCompetitors(<<"1", "9", "7">>, "Away", "away", "8")}}

NoneDoc == [EmptyDoc EXCEPT !.kind = "none"]
ListDoc == [EmptyDoc EXCEPT !.kind = "list"]

\* what the raw-document store holds for the event, and what a fetch answers
StoreChoices ==
    {<<Absent, Absent>>, <<Absent, Some(NoneDoc)>>, <<Some(NoneDoc), Absent>>,
     <<Some(ListDoc), Absent>>}
    \cup {<<Some(d), Absent>> : d \in StatDocs \cup TeamVenueDocs \cup BroadcastDocs \cup PlayDocs
                                     \cup IdDocs \cup FillDocs
                                     \cup TeamStatsDocs \cup AliasDocs
                                     \cup StatusDocs \cup GroupDocs \cup ScoreDocs}
    \cup {<<Absent, Some(d)>> : d \in PlayDocs}

\* ------------------------------------------------------------ type optimizer
\* pd.to_numeric(x, errors='coerce'): text that is not a number becomes NaN
ToNumeric(v) ==
    CASE v.t = "str" ->
             IF ParsesAsInt(v.s) THEN IntV(ToInt(v.s))
             ELSE IF IsNumeric(v.s) THEN FloatText(v.s)
             ELSE NaN
      [] v.t \in {"int", "float"} -> v
      [] v.t = "bool" -> IntV(v.n)
      [] OTHER -> NaN

id_columns ==
    {"game_id", "venue_id", "team_id", "player_id", "player_1_id", "player_2_id",
     "position_id", "play_type_id", "sequence_number"}

\* the columns of datatype_conversions that go through pd.to_numeric
NumericColumns(data_type) ==
    CASE data_type = "game_info" -> {"attendance"}
      [] data_type = "play_by_play" ->
             {"clock_seconds", "score_home", "score_away", "score_value",
              "coordinate_x", "coordinate_y", "home_win_percentage",
              "away_win_percentage", "tie_percentage"}
      [] data_type = "player_stats" ->
             {"jersey", "MIN", "OREB", "DREB", "REB", "AST", "STL", "BLK", "TO", "PF", "PTS"}
      [] data_type = "team_stats" ->
             {"PTS", "REB", "AST", "STL", "BLK", "TO", "TTO", "ToTO", "TECH",
              "PTS OFF TO", "FBPs", "PIP", "PF", "LL", "OREB", "DREB"}
      [] data_type = "teams_info" -> {"score"}
      [] OTHER -> {}

\* a column has dtype object when it holds text or None
IsObjectColumn(df, c) == \E i \in 1..Len(df) : df[i][c].t \in {"str", "none"}

HasNonNull(df, c) == \E i \in 1..Len(df) : ~IsNull(df[i][c])

\* the columns of datatype_conversions whose target is Int64
Int64Columns(data_type) ==
    CASE data_type = "game_info" -> {"attendance"}
      [] data_type = "play_by_play" ->
             {"clock_seconds", "score_home", "score_away", "score_value"}
      [] data_type = "player_stats" -> {"jersey"}
      [] data_type = "teams_info" -> {"score"}
      [] OTHER -> {}

\* a float that is not a whole number
HasFraction(v) ==
    /\ v.t = "float"
    /\ IF Len(v.s) = 0 THEN v.n % 10 # 0
       ELSE \E i, j \in 1..Len(v.s) : i < j /\ v.s[i] = "." /\ v.s[j] # "0"

\* the text before the '.'
WholePart(s) ==
    SubSeq(s, 1, (CHOOSE i \in 1..(Len(s) + 1) :
                     /\ i = Len(s) + 1 \/ s[i] = "."
                     /\ \A j \in 1..(i - 1) : s[j] # ".") - 1)

\* one value of a float column under astype('Int64')
ToInt64(v) ==
    IF v.t # "float" THEN v
    ELSE IF Len(v.s) = 0 THEN IntV(v.n \div 10)
    ELSE IntV(ToInt(WholePart(v.s)))

\* pd.to_numeric(..., errors='coerce').astype('Int64') raises when a value
\* has a fraction; the except clause then leaves the column as it was
Int64Fails(df, c) == \E i \in 1..Len(df) : HasFraction(ToNumeric(df[i][c]))

\* result_df[col].replace('', np.nan) on what is left as text
EmptyToNaN(v) == IF v.t = "str" /\ Len(v.s) = 0 THEN NaN ELSE v

\* the column after the conversions of optimize_dataframe_dtypes; an empty
\* string left in an object column becomes NaN
OptimizedCell(df, data_type, c, v) ==
    IF (c \in id_columns /\ IsObjectColumn(df, c) /\ HasNonNull(df, c))
       \/ c \in Int64Columns(data_type)
    THEN IF Int64Fails(df, c) THEN EmptyToNaN(v) ELSE ToInt64(ToNumeric(v))
    ELSE IF c \in NumericColumns(data_type) THEN ToNumeric(v)
    ELSE EmptyToNaN(v)

dnp_stat_columns ==
    {"MIN", "FG_MADE", "FG_ATT", "FG_PCT", "3PT_MADE", "3PT_ATT", "3PT_PCT",
     "FT_MADE", "FT_ATT", "FT_PCT", "OREB", "DREB", "REB", "AST", "STL", "BLK",
     "TO", "PF", "PTS"}

\* result_df.loc[dnp_mask, col] = np.nan
DnpCell(row, data_type, c, v) ==
    IF data_type = "player_stats" /\ "dnp" \in DOMAIN row /\ row.dnp = BoolV(TRUE)
       /\ c \in dnp_stat_columns
    THEN NaN
    ELSE v

optimize_dataframe_dtypes(df, data_type) ==
    [i \in 1..Len(df) |->
        [c \in DOMAIN df[i] |->
            DnpCell(df[i], data_type, c, OptimizedCell(df, data_type, c, df[i][c]))]]

\* the same share, at least 90%
MostlyParsed_atleast(df, col) ==
    LET full == {i \in 1..Len(df) :
                    \A x \in {"_MADE", "_ATT", "_PCT"} : ~IsNull(df[i][col \o x])}
    IN 10 * Cardinality(full) >= 9 * Len(df)

\* the share of rows whose three derived columns are all filled is over 90%
MostlyParsed(df, col) ==
    LET full == {i \in 1..Len(df) :
                    \A x \in {"_MADE", "_ATT", "_PCT"} : ~IsNull(df[i][col \o x])}
    IN 10 * Cardinality(full) > 9 * Len(df)

\* the raw composite columns that remove_redundant_columns drops
RedundantColumns(df, data_type) ==
    IF data_type \in {"player_stats", "team_stats"}
    THEN {CompositeCols[k] : k \in {j \in 1..Len(CompositeCols) :
              /\ {CompositeCols[j], CompositeCols[j] \o "_MADE", CompositeCols[j] \o "_ATT",
                  CompositeCols[j] \o "_PCT"} \subseteq Columns(df)
              /\ MostlyParsed(df, CompositeCols[j])}}
    ELSE {}

remove_redundant_columns(df, data_type) ==
    [i \in 1..Len(df) |->
        [c \in (DOMAIN df[i]) \ RedundantColumns(df, data_type) |-> df[i][c]]]

\* --------------------------------------------------------- process_all_games
SummaryKinds == TableKinds \cup {"game_summary"}

SummaryRow(game_id, season, processed, error) ==
    [game_id |-> game_id, season |-> IntV(season), processed |-> BoolV(processed),
     error |-> error]

\* process_game_result that leaves out the tables of a single row
process_game_result_long(game_results, result, season) ==
    IF result.processed /\ "data" \in DOMAIN result
    THEN [k \in SummaryKinds |->
             IF k = "game_summary"
             THEN Append(game_results[k],
                         SummaryRow(result.game_id, result.season, TRUE, None))
             ELSE IF Len(result.data[k]) > 1 THEN Append(game_results[k], result.data[k])
             ELSE game_results[k]]
    ELSE [game_results EXCEPT !["game_summary"] =
             Append(@, SummaryRow(result.game_id, result.season, FALSE,
                                  IF "error" \in DOMAIN result THEN result.error
                                  ELSE Txt("Unknown error")))]

\* process_game_result(result): one summary row, and the non-empty tables of
\* a processed event appended to the lists of their kinds
process_game_result(game_results, result, season) ==
    IF result.processed /\ "data" \in DOMAIN result
    THEN [k \in SummaryKinds |->
             IF k = "game_summary"
             THEN Append(game_results[k],
                         SummaryRow(result.game_id, result.season, TRUE, None))
             ELSE IF Len(result.data[k]) > 0 THEN Append(game_results[k], result.data[k])
             ELSE game_results[k]]
    ELSE [game_results EXCEPT !["game_summary"] =
             Append(@, SummaryRow(result.game_id, result.season, FALSE,
                                  IF "error" \in DOMAIN result THEN result.error
                                  ELSE Txt("Unknown error")))]

\* the except clause around future.result(): the event id is not known there
FailedFutureRow(season) ==
    SummaryRow(Txt("error"), season, FALSE, Txt("Error processing game result"))

\* df.dropna(axis=1, how='all') of one event's table
DropAllNaColumns(df) ==
    LET dead == {c \in Columns(df) : \A i \in 1..Len(df) : IsNull(df[i][c])}
    IN [i \in 1..Len(df) |-> [c \in (DOMAIN df[i]) \ dead |-> df[i][c]]]

\* the rows of the tables of a list, one table after the other; a table
\* that has no column left is empty and is not concatenated
RECURSIVE ConcatRows(_, _)
ConcatRows(df_list, i) ==
    IF i > Len(df_list) THEN <<>>
    ELSE (IF Columns(DropAllNaColumns(df_list[i])) = {} THEN <<>>
          ELSE DropAllNaColumns(df_list[i]))
         \o ConcatRows(df_list, i + 1)

\* combined_df['error'].replace('', None)
CleanError(rows) ==
    [i \in 1..Len(rows) |->
        IF rows[i].error.t = "str" /\ Len(rows[i].error.s) = 0
        THEN [rows[i] EXCEPT !.error = None] ELSE rows[i]]

\* the combined table of one kind, optimized and stripped of redundant columns
CombinedTable(game_results, data_type) ==
    LET combined == IF data_type = "game_summary"
                    THEN CleanError(game_results[data_type])
                    ELSE DataFrame(ConcatRows(game_results[data_type], 1))
    IN remove_redundant_columns(optimize_dataframe_dtypes(combined, data_type), data_type)

\* the rows appended for the scheduled ids that the summary does not hold
RECURSIVE MissingRecords(_, _)
MissingRecords(missing_game_ids, season) ==
    IF missing_game_ids = {} THEN <<>>
    ELSE LET game_id == CHOOSE g \in missing_game_ids : TRUE
         IN <<SummaryRow(IntV(game_id), season, FALSE,
                         Txt("Game failed to process completely"))>>
            \o MissingRecords(missing_game_ids \ {game_id}, season)

\* the game_summary that is written: reconciled with schedules.parquet when
\* that file exists and is not empty
Reconciled(df, schedule_file, season) ==
    IF Has(schedule_file) /\ Val(schedule_file) # {}
    THEN LET processed_game_ids == {df[i].game_id.n : i \in {j \in 1..Len(df) :
                                                        df[j].game_id.t = "int"}}
         IN df \o MissingRecords(Val(schedule_file) \ processed_game_ids, season)
    ELSE df

\* the files after "for data_type, df in combined_dfs.items()": an empty
\* table is not written, the file of an earlier run stays as it is
SavedAfter(saved, combined_dfs, schedule_file, season) ==
    [k \in SummaryKinds |->
        IF Len(combined_dfs[k]) = 0 THEN saved[k]
        ELSE IF k = "game_summary"
             THEN Some(Reconciled(combined_dfs[k], schedule_file, season))
             ELSE Some(combined_dfs[k])]

\* -------------------------------------------------------- process_season_data
Statistics(total_games, success_count, error_count) ==
    [season |-> Season, total_games |-> total_games, success_games |-> success_count,
     error_games |-> error_count]

\* total_games = len(unique_game_ids) of the schedule
TotalGames(schedule) == Cardinality(Val(schedule))

\* len(df[df['processed'] == True])
SuccessCount(df) ==
    Cardinality({i \in 1..Len(df) : df[i].processed = BoolV(TRUE)})

\* len(df[df['error'].notna()])
ErrorGames(df) == Cardinality({i \in 1..Len(df) : ~IsNull(df[i].error)})

\* the counts taken from the game_summary that process_all_games returned:
\* an empty table leaves both at 0; without any error message the failures
\* are what is missing to total_games
CountedStatistics(processed_data, total_games) ==
    IF Len(processed_data["game_summary"]) = 0 THEN Statistics(total_games, 0, 0)
    ELSE IF ErrorGames(processed_data["game_summary"]) = 0
            /\ SuccessCount(processed_data["game_summary"]) < total_games
         THEN Statistics(total_games, SuccessCount(processed_data["game_summary"]),
                         total_games - SuccessCount(processed_data["game_summary"]))
         ELSE Statistics(total_games, SuccessCount(processed_data["game_summary"]),
                         ErrorGames(processed_data["game_summary"]))

\* ---------------------------------------------------- the tables' inputs
\* a teams_info row: the id and the score are digits, text that is no number,
\* a number with a fraction, empty or null
TeamsInfoInput(team_id, score) ==
    [game_id |-> IntV(401), team_id |-> team_id, team_name |-> Txt("Home"), score |-> score]

TeamsInfoInputs ==
    {TeamsInfoInput(team_id, score) :
        team_id \in {StrV(<<"5", "2">>), Txt("abc"), StrV(<<"4", ".", "5">>), None},
        score \in {StrV(<<"7">>), Txt("x"), StrV(<<>>)}}

\* a row of player_stats or team_stats: with the field goals parsed and the
\* three-pointers left without their attempts, or the other way round
StatsInput(parsed) ==
    [game_id |-> IntV(401), PTS |-> FloatV(120),
     FG |-> Txt("5-9"),
     FG_MADE |-> IF parsed THEN FloatV(50) ELSE NaN,
     FG_ATT |-> IF parsed THEN FloatV(90) ELSE NaN,
     FG_PCT |-> IF parsed THEN FloatV(556) ELSE NaN,
     3PT |-> Txt("1-2"),
     3PT_MADE |-> FloatV(10),
     3PT_ATT |-> IF parsed THEN NaN ELSE FloatV(20),
     3PT_PCT |-> IF parsed THEN NaN ELSE FloatV(500)]

\* n rows of which the first k have the field goals parsed; without_pct
\* leaves the FG_PCT column out of the table
StatsTable(n, k, without_pct) ==
    [i \in 1..n |->
        [c \in (DOMAIN StatsInput(TRUE)) \ (IF without_pct THEN {"FG_PCT"} ELSE {}) |->
            StatsInput(i <= k)[c]]]

StatsTables ==
    {StatsTable(n, k, w) : n \in 1..MaxStatRows, k \in 0..MaxStatRows, w \in BOOLEAN}

\* the tables and their data types
TableChoices ==
    {<<df, "teams_info">> : df \in SeqsUpTo(TeamsInfoInputs, MaxRows)}
        \cup (StatsTables \X {"player_stats", "team_stats", "teams_info"})

\* --------------------------------------------------- the season's inputs
GameIds == 1..MaxGames
GameNumber(g) == 400 + g
GameIdStr(g) == StrV(<<"4", "0", ToString(g)>>)

FileKinds == {"absent", "two", "mixed", "bad", "null"}

\* the kinds of file of the smaller seasons
AgainFileKinds == {"absent", "two", "bad"}

\* the raw documents a season's files hold: two plays and two teams; a play, a
\* string and a play; a play and a null entry; the JSON value null
SeasonDoc(kind) ==
    CASE kind = "two" ->
             [EmptyDoc EXCEPT
                 !.header = Some([NoHeader EXCEPT !.competitions = Some(
                     <<[NoCompetition EXCEPT !.competitors = Some(
                         <<Competitor(<<"5", "2">>, "Home", "home", <<"7">>),
                           Competitor(<<"1", "9", "7">>, "Away", "away", <<"5">>)>>)]>>)]),
                 !.plays = Some(<<PlayAt("dict", 1), PlayAt("dict", 2)>>)]
      [] kind = "mixed" ->
             [EmptyDoc EXCEPT !.plays =
                 Some(<<PlayAt("dict", 1), PlayAt("str", 2), PlayAt("dict", 3)>>)]
      [] kind = "bad" ->
             [EmptyDoc EXCEPT !.plays = Some(<<PlayAt("dict", 1), PlayAt("null", 2)>>)]
      [] kind = "null" -> NoneDoc

\* ------------------------------------------------------------ the machines
VARIABLES
    doc_file,       \* the event's file in the raw-document store, or Absent
    reply,          \* what a fetch of the event answers, Absent when it fails
    filename,       \* the filename argument of get_game_details, Absent without
    game_data,      \* the document object handed to get_game_details
    game_details,   \* what get_game_details did: raised or returned
    details_again,  \* what a second get_game_details on the same object did
    result,         \* what process_game_data / process_game_with_season did
    pc,             \* "start", then the name of the function that was called
    raw_files,      \* the season's raw games directory: Absent, or its files
    schedule_file,  \* the game ids of schedules.parquet, Absent without file
    crashing,       \* the events whose worker process dies
    pending,        \* the futures that have not completed
    results,        \* future.result() of each completed future
    game_results,   \* the lists process_game_result appends to
    combined_dfs,   \* the tables process_all_games returns
    saved,          \* the season's table files
    spc,            \* "idle", "running", "done"; around them
                    \* "process_season_data" and "returned"
    season_stats,   \* what process_season_data returned
    table_in,          \* the table handed to the type optimizer or the redundancy pass
    table_type,     \* its data_type
    table_result,   \* the table that came back
    tpc,            \* "start", then the name of the function that was called
    concurrency,    \* the concurrency argument of fetch_games_batch
    force_fetch,    \* its force argument
    cached_games,   \* the requested events whose raw file exists
    semaphore,      \* the permits the semaphore has left
    tasks,          \* where the task of each event is
    statuses,       \* what the fetch of each event came to
    games_map,      \* the events fetch_games_batch returns data for
    fpc             \* "start", "gather", "returned"

gameVars == <<doc_file, reply, filename, game_data, game_details, details_again, result, pc>>

seasonVars == <<raw_files, schedule_file, crashing, pending, results, game_results,
                combined_dfs, saved, spc, season_stats>>

tableVars == <<table_in, table_type, table_result, tpc>>

fetchVars == <<concurrency, force_fetch, cached_games, semaphore, tasks, statuses, games_map, fpc>>

vars == <<gameVars, seasonVars, tableVars, fetchVars>>

NotCalled == Ok(<<>>)

NoLists == [k \in SummaryKinds |-> <<>>]

GameStart(sc) ==
    /\ doc_file = sc[1] /\ reply = sc[2]
    /\ game_data = Absent
    /\ game_details = NotCalled
    /\ details_again = NotCalled
    /\ result = NotCalled
    /\ pc = "start"

SeasonStart(files, schedule, crash) ==
    /\ raw_files = files
    /\ schedule_file = schedule
    /\ crashing = crash
    /\ pending = {}
    /\ results = [g \in GameIds |-> NotCalled]
    /\ game_results = NoLists
    /\ combined_dfs = <<>>
    /\ saved = [k \in SummaryKinds |-> Absent]
    /\ spc = "idle"
    /\ season_stats = <<>>

TableStart(df, data_type) ==
    /\ table_in = df
    /\ table_type = data_type
    /\ table_result = <<>>
    /\ tpc = "start"

FetchStart(c, f, cached) ==
    /\ concurrency = c
    /\ force_fetch = f
    /\ cached_games = cached
    /\ semaphore = c
    /\ tasks = [g \in GameIds |-> "none"]
    /\ statuses = [g \in GameIds |-> "none"]
    /\ games_map = {}
    /\ fpc = "start"

\* json.load of the event's file, then get_game_details(game_data)
GetGameDetails ==
    /\ pc = "start"
    /\ Has(doc_file) /\ Val(doc_file).kind = "dict"
    /\ \E r \in {get_game_details(Val(doc_file), filename)} :
          /\ game_details' = [raised |-> r.raised, value |-> r.value.details]
          /\ game_data' = Some(r.value.game_data)
    /\ pc' = "get_game_details"
    /\ UNCHANGED <<doc_file, reply, filename, details_again, result, seasonVars, tableVars, fetchVars>>

\* get_game_details(game_data) once more, on the object the first call returned from
GetGameDetailsAgain ==
    /\ pc = "get_game_details"
    /\ game_details.raised = ""
    /\ \E r \in {get_game_details(Val(game_data), filename)} :
          /\ details_again' = [raised |-> r.raised, value |-> r.value.details]
          /\ game_data' = Some(r.value.game_data)
    /\ pc' = "get_game_details_again"
    /\ UNCHANGED <<doc_file, reply, filename, game_details, result, seasonVars, tableVars, fetchVars>>

\* get_primary_broadcast(game_data) on the document of the event's file
GetPrimaryBroadcast ==
    /\ pc = "start"
    /\ Has(doc_file) /\ Val(doc_file).kind = "dict"
    /\ result' = get_primary_broadcast(Val(doc_file))
    /\ pc' = "get_primary_broadcast"
    /\ UNCHANGED <<doc_file, reply, filename, game_data, game_details, details_again,
                   seasonVars, tableVars, fetchVars>>

\* process_game_data(game_id, season)
ProcessGameData ==
    /\ pc = "start"
    /\ result' = process_game_data(TheGame, Season, doc_file, reply)
    /\ doc_file' = StoreAfter(doc_file, reply)
    /\ pc' = "process_game_data"
    /\ UNCHANGED <<reply, filename, game_data, game_details, details_again, seasonVars, tableVars, fetchVars>>

\* process_game_with_season(game_id, season, force, gender, verbose)
ProcessGameWithSeason ==
    /\ pc = "start"
    /\ result' = process_game_with_season(TheGame, Season, doc_file, reply)
    /\ doc_file' = StoreAfter(doc_file, reply)
    /\ pc' = "process_game_with_season"
    /\ UNCHANGED <<reply, filename, game_data, game_details, details_again, seasonVars, tableVars, fetchVars>>

\* process_all_games up to the submission of the futures; without a raw games
\* directory it returns at once with an empty game_summary
StartSeason ==
    /\ spc = "idle"
    /\ IF ~Has(raw_files)
       THEN /\ combined_dfs' = [k \in {"game_summary"} |-> <<>>]
            /\ spc' = "done"
            /\ UNCHANGED <<pending, game_results>>
       ELSE /\ pending' = {g \in GameIds : Val(raw_files)[g] # "absent"}
            /\ game_results' = NoLists
            /\ spc' = "running"
            /\ UNCHANGED combined_dfs
    /\ UNCHANGED <<raw_files, schedule_file, crashing, results, saved, season_stats,
                   gameVars, tableVars, fetchVars>>

\* one turn of "for future in as_completed(futures)"
CompleteFuture(g) ==
    /\ spc = "running"
    /\ g \in pending
    /\ pending' = pending \ {g}
    /\ IF g \in crashing
       THEN /\ game_results' = [game_results EXCEPT !["game_summary"] =
                                    Append(@, FailedFutureRow(Season))]
            /\ results' = [results EXCEPT ![g] = Raise("BrokenProcessPool", <<>>)]
       ELSE \E r \in {process_game_with_season(GameIdStr(g), Season,
                                                Some(SeasonDoc(Val(raw_files)[g])), Absent)} :
               /\ game_results' = process_game_result(game_results, r.value, Season)
               /\ results' = [results EXCEPT ![g] = r]
    /\ UNCHANGED <<raw_files, schedule_file, crashing, combined_dfs, saved, spc, season_stats,
                   gameVars, tableVars, fetchVars>>

\* the rest of process_all_games: combine, optimize, reconcile, save, return
FinishSeason ==
    /\ spc = "running"
    /\ pending = {}
    /\ LET dfs == [k \in SummaryKinds |-> CombinedTable(game_results, k)]
       IN /\ combined_dfs' = dfs
          /\ saved' = SavedAfter(saved, dfs, schedule_file, Season)
    /\ spc' = "done"
    /\ UNCHANGED <<raw_files, schedule_file, crashing, pending, results, game_results,
                   season_stats, gameVars, tableVars, fetchVars>>

\* one call on one event
Init ==
    /\ \E sc \in StoreChoices : GameStart(sc) /\ filename \in FilenameChoices(sc[1])
    /\ SeasonStart(Absent, Absent, {})
    /\ TableStart(<<>>, "game_info")
    /\ FetchStart(1, FALSE, {})

Next ==
    \/ GetPrimaryBroadcast
    \/ GetGameDetails
    \/ GetGameDetailsAgain
    \/ ProcessGameData
    \/ ProcessGameWithSeason

Spec == Init /\ [][Next]_vars

\* schedules.parquet: missing, or listing every event of the season
ScheduleChoices == {Absent, Some({GameNumber(g) : g \in GameIds})}

\* one run of process_all_games over a season
SeasonInit ==
    /\ GameStart(<<Absent, Absent>>) /\ filename = Absent
    /\ \E files \in {Absent} \cup {Some(f) : f \in [GameIds -> FileKinds]},
          schedule \in ScheduleChoices, crash \in {{}, {1}} :
          SeasonStart(files, schedule, crash)
    /\ TableStart(<<>>, "game_info")
    /\ FetchStart(1, FALSE, {})

SeasonNext == StartSeason \/ (\E g \in GameIds : CompleteFuture(g)) \/ FinishSeason

SpecSeason == SeasonInit /\ [][SeasonNext]_vars

\* process_season_data up to the call of process_all_games: without schedule
\* data it returns at once
StartSeasonData ==
    /\ spc = "process_season_data"
    /\ IF ~Has(schedule_file) \/ Val(schedule_file) = {}
       THEN /\ season_stats' = [Statistics(0, 0, 0) EXCEPT !.season = Season]
            /\ spc' = "returned"
       ELSE /\ spc' = "idle"
            /\ UNCHANGED season_stats
    /\ UNCHANGED <<raw_files, schedule_file, crashing, pending, results, game_results,
                   combined_dfs, saved, gameVars, tableVars, fetchVars>>

\* process_season_data after process_all_games has returned
ReturnStatistics ==
    /\ spc = "done"
    /\ season_stats' = CountedStatistics(combined_dfs, TotalGames(schedule_file))
    /\ spc' = "returned"
    /\ UNCHANGED <<raw_files, schedule_file, crashing, pending, results, game_results,
                   combined_dfs, saved, gameVars, tableVars, fetchVars>>

\* the schedule of the season: none, an empty one, every event, one event
StatisticsSchedules ==
    {Absent, Some({}), Some({GameNumber(g) : g \in GameIds}), Some({GameNumber(1)})}

\* one call of process_season_data
StatisticsInit ==
    /\ GameStart(<<Absent, Absent>>) /\ filename = Absent
    /\ \E files \in {Absent} \cup {Some(f) : f \in [GameIds -> AgainFileKinds]},
          schedule \in StatisticsSchedules, crash \in {{}, {1}} :
          /\ raw_files = files
          /\ schedule_file = schedule
          /\ crashing = crash
          /\ pending = {}
          /\ results = [g \in GameIds |-> NotCalled]
          /\ game_results = NoLists
          /\ combined_dfs = <<>>
          /\ saved = [k \in SummaryKinds |-> Absent]
          /\ spc = "process_season_data"
          /\ season_stats = <<>>
    /\ TableStart(<<>>, "game_info")
    /\ FetchStart(1, FALSE, {})

StatisticsNext == StartSeasonData \/ SeasonNext \/ ReturnStatistics

SpecStatistics == StatisticsInit /\ [][StatisticsNext]_vars

\* the files an earlier run of process_all_games left in the season's
\* directories, when the raw directory then held one event with two plays
EarlierResults ==
    process_game_result(NoLists,
        process_game_with_season(GameIdStr(1), Season, Some(SeasonDoc("two")), Absent).value,
        Season)

EarlierSaved ==
    SavedAfter([k \in SummaryKinds |-> Absent],
               [k \in SummaryKinds |-> CombinedTable(EarlierResults, k)], Absent, Season)

\* process_all_games on a season that was processed before
AgainInit ==
    /\ GameStart(<<Absent, Absent>>) /\ filename = Absent
    /\ \E files \in {Absent} \cup {Some(f) : f \in [GameIds -> AgainFileKinds]},
          schedule \in ScheduleChoices, crash \in {{}, {1}} :
          /\ raw_files = files
          /\ schedule_file = schedule
          /\ crashing = crash
          /\ pending = {}
          /\ results = [g \in GameIds |-> NotCalled]
          /\ game_results = NoLists
          /\ combined_dfs = <<>>
          /\ saved = EarlierSaved
          /\ spc = "idle"
          /\ season_stats = <<>>
    /\ TableStart(<<>>, "game_info")
    /\ FetchStart(1, FALSE, {})

SpecAgain == AgainInit /\ [][SeasonNext]_vars

\* ------------------------------------------------------- fetch_games_batch
\* what a fetch comes to: 200 with a document, 200 with an empty document,
\* another status, an exception inside fetch_game_async
Outcomes == {"200", "200 empty", "404", "exception"}

\* the events of game_data_list that are fetched: all of them with force,
\* otherwise those without a raw file
FilteredList == IF force_fetch THEN GameIds ELSE GameIds \ cached_games

\* the pre-filter, the semaphore and one task per event of the list; without
\* force and with every event cached the cached documents are returned at once
StartBatch ==
    /\ fpc = "start"
    /\ IF FilteredList = {}
       THEN /\ games_map' = cached_games
            /\ fpc' = "returned"
            /\ UNCHANGED tasks
       ELSE /\ tasks' = [g \in GameIds |-> IF g \in FilteredList THEN "waiting" ELSE "none"]
            /\ fpc' = "gather"
            /\ UNCHANGED games_map
    /\ UNCHANGED <<concurrency, force_fetch, cached_games, semaphore, statuses,
                   gameVars, seasonVars, tableVars>>

\* "async with semaphore" of fetch_with_semaphore: a permit is taken, the
\* task goes to its random sleep
Acquire(g) ==
    /\ fpc = "gather"
    /\ tasks[g] = "waiting"
    /\ semaphore > 0
    /\ semaphore' = semaphore - 1
    /\ tasks' = [tasks EXCEPT ![g] = "sleeping"]
    /\ UNCHANGED <<concurrency, force_fetch, cached_games, statuses, games_map, fpc,
                   gameVars, seasonVars, tableVars>>

\* fetch_game_async up to session.get(url): the request is on its way
Request(g) ==
    /\ fpc = "gather"
    /\ tasks[g] = "sleeping"
    /\ tasks' = [tasks EXCEPT ![g] = "fetching"]
    /\ UNCHANGED <<concurrency, force_fetch, cached_games, semaphore, statuses, games_map,
                   fpc, gameVars, seasonVars, tableVars>>

\* a fetch that keeps its permit when fetch_game_async met an exception
Respond_leak(g, outcome) ==
    /\ fpc = "gather"
    /\ tasks[g] = "fetching"
    /\ tasks' = [tasks EXCEPT ![g] = "done"]
    /\ statuses' = [statuses EXCEPT ![g] = outcome]
    /\ semaphore' = IF outcome = "exception" THEN semaphore ELSE semaphore + 1
    /\ UNCHANGED <<concurrency, force_fetch, cached_games, games_map, fpc,
                   gameVars, seasonVars, tableVars>>

\* the rest of fetch_game_async: the answer, or the exception that the
\* function catches; the task returns and "async with" gives the permit back
Respond(g, outcome) ==
    /\ fpc = "gather"
    /\ tasks[g] = "fetching"
    /\ tasks' = [tasks EXCEPT ![g] = "done"]
    /\ statuses' = [statuses EXCEPT ![g] = outcome]
    /\ semaphore' = semaphore + 1
    /\ UNCHANGED <<concurrency, force_fetch, cached_games, games_map, fpc,
                   gameVars, seasonVars, tableVars>>

\* asyncio.gather returned: the documents that are not empty go to games_map
Gather ==
    /\ fpc = "gather"
    /\ \A g \in GameIds : tasks[g] \in {"none", "done"}
    /\ games_map' = (IF force_fetch THEN {} ELSE cached_games)
                        \cup {g \in GameIds : statuses[g] = "200"}
    /\ fpc' = "returned"
    /\ UNCHANGED <<concurrency, force_fetch, cached_games, semaphore, tasks, statuses,
                   gameVars, seasonVars, tableVars>>

\* one call of fetch_games_batch for the events of a season
FetchInit ==
    /\ GameStart(<<Absent, Absent>>) /\ filename = Absent
    /\ SeasonStart(Absent, Absent, {})
    /\ TableStart(<<>>, "game_info")
    /\ \E c \in 1..MaxConcurrency, f \in BOOLEAN, cached \in SUBSET GameIds :
          FetchStart(c, f, cached)

FetchNext ==
    \/ StartBatch
    \/ \E g \in GameIds : Acquire(g)
    \/ \E g \in GameIds : Request(g)
    \/ \E g \in GameIds : \E outcome \in Outcomes : Respond(g, outcome)
    \/ Gather

SpecFetch == FetchInit /\ [][FetchNext]_vars

\* the event loop runs every task that can run, and every request that was
\* sent is answered or fails
FetchFairness ==
    /\ WF_vars(StartBatch)
    /\ \A g \in GameIds :
           /\ WF_vars(Acquire(g))
           /\ WF_vars(Request(g))
           /\ WF_vars(\E outcome \in Outcomes : Respond(g, outcome))
    /\ WF_vars(Gather)

SpecFetchFair == SpecFetch /\ FetchFairness

\* optimize_dataframe_dtypes(df, data_type)
OptimizeDtypes ==
    /\ tpc = "start"
    /\ table_result' = optimize_dataframe_dtypes(table_in, table_type)
    /\ tpc' = "optimize_dataframe_dtypes"
    /\ UNCHANGED <<table_in, table_type, gameVars, seasonVars, fetchVars>>

\* remove_redundant_columns(df, data_type)
RemoveRedundantColumns ==
    /\ tpc = "start"
    /\ table_result' = remove_redundant_columns(table_in, table_type)
    /\ tpc' = "remove_redundant_columns"
    /\ UNCHANGED <<table_in, table_type, gameVars, seasonVars, fetchVars>>

\* one call of a table pass on one table
TablesInit ==
    /\ GameStart(<<Absent, Absent>>) /\ filename = Absent
    /\ SeasonStart(Absent, Absent, {})
    /\ \E t \in TableChoices : TableStart(t[1], t[2])
    /\ FetchStart(1, FALSE, {})

TablesNext == OptimizeDtypes \/ RemoveRedundantColumns

SpecTables == TablesInit /\ [][TablesNext]_vars

\* ------------------------------------------------ one event: the claims
Called(f) == pc = f
Returned == result.raised = "" /\ pc \in {"process_game_data", "process_game_with_season"}
Processed == Returned /\ result.value.processed

\* the document holds the one-statistic box score of StatDoc
HasStatInput ==
    /\ Has(doc_file) /\ Val(doc_file).kind = "dict" /\ Has(Val(doc_file).boxscore)
    /\ Len(Val(Val(doc_file).boxscore).players) = 1

StatGroup == Val(Val(doc_file).boxscore).players[1].statistics[1]
StatCol == StatGroup.labels[1]
StatText == StatGroup.athletes[1].stats[1].s
StatDnp == StatGroup.athletes[1].didNotPlay = BoolV(TRUE)
PlayerRow == result.value.data.player_stats[1]
TeamRow == result.value.data.team_stats[1]

\* C2: process_game_data and process_game_with_season never raise: every call
\* returns game_id, season and a processed flag, with exactly the seven row
\* collections when processed is true and an error string when it is false.
C2_NeverRaises ==
    pc \in {"process_game_data", "process_game_with_season"} =>
        /\ result.raised = ""
        /\ {"game_id", "season", "processed"} \subseteq DOMAIN result.value
        /\ result.value.game_id = TheGame
        /\ result.value.season = Season
        /\ result.value.processed \in BOOLEAN
        /\ result.value.processed =>
               /\ "data" \in DOMAIN result.value
               /\ DOMAIN result.value.data = TableKinds
        /\ ~result.value.processed =>
               /\ "error" \in DOMAIN result.value
               /\ result.value.error.t = "str"

\* an exception inside the extraction (a null play entry) came back as a result
C2_Witness ==
    /\ pc = "process_game_data"
    /\ result.raised = ""
    /\ ~result.value.processed
    /\ result.value.error = Txt("TypeError")

\* C3: a document that is absent from the store with a failing fetch, or that
\* is not a mapping, gives processed = false with a non-empty error string.
C3_MissingDocumentFails ==
    (/\ pc \in {"process_game_data", "process_game_with_season"}
     /\ \/ ~Has(doc_file) /\ ~Has(reply)
        \/ Has(doc_file) /\ Val(doc_file).kind # "dict")
    => /\ result.raised = ""
       /\ ~result.value.processed
       /\ result.value.error.t = "str"
       /\ Len(result.value.error.s) > 0

\* C4: in every player row of process_game_data with dnp true, the ten basic
\* stat fields and the nine derived FG / 3PT / FT fields are null.
C4_DnpRowsAreNull ==
    Processed =>
        \A i \in 1..Len(result.value.data.player_stats) :
            LET row == result.value.data.player_stats[i]
            IN row.dnp = BoolV(TRUE) =>
                   \A f \in {stat_fields[k] : k \in 1..Len(stat_fields)}
                            \cup {CompositeCols[c] \o x :
                                     c \in 1..Len(CompositeCols),
                                     x \in {"_MADE", "_ATT", "_PCT"}} :
                       f \in DOMAIN row => IsNull(row[f])

C6_MalformedIsExplicitNull ==
    (Processed /\ HasStatInput /\ SplitFails(StatText)) =>
        \A row \in {PlayerRow, TeamRow} :
            \A x \in {"_MADE", "_ATT", "_PCT"} :
                /\ (StatCol \o x) \in DOMAIN row
                /\ IsNull(row[StatCol \o x])

\* C7: an extracted event has exactly two team rows, with distinct team ids,
\* one home and one away.
C7_ExactlyTwoTeams ==
    Processed =>
        LET rows == result.value.data.teams_info
        IN /\ Len(rows) = 2
           /\ rows[1].team_id # rows[2].team_id
           /\ {rows[1].home_away, rows[2].home_away} = {Txt("home"), Txt("away")}

\* the index of the first entry of list that satisfies P(_), 0 when none does
FirstSuch(list, P(_)) ==
    IF \E i \in 1..Len(list) : P(list[i])
    THEN CHOOSE i \in 1..Len(list) : P(list[i]) /\ \A j \in 1..(i - 1) : ~P(list[j])
    ELSE 0

\* the first non-empty of the three broadcast locations of a document
FirstNonEmptyBroadcasts(doc) ==
    LET top == ListOf(doc.broadcasts)
        hdr == IF HasCompetition(doc) THEN ListOf(Competition(doc).broadcasts) ELSE <<>>
        gi == IF Has(doc.gameInfo) THEN ListOf(Val(doc.gameInfo).broadcasts) ELSE <<>>
    IN IF Len(top) > 0 THEN top ELSE IF Len(hdr) > 0 THEN hdr ELSE gi

\* C9: the broadcast of an event is taken from the first non-empty of
\* top-level broadcasts, header.competitions[0].broadcasts and
\* gameInfo.broadcasts, and is the first national TV entry, else the first TV
\* entry, else the first national entry, else the first entry, upper and lower
\* case alike; without broadcasts the three broadcast fields are null.
C9_PrimaryBroadcast ==
    (pc \in {"get_primary_broadcast", "get_game_details"}) =>
        LET list == FirstNonEmptyBroadcasts(Val(doc_file))
            Tv(b) == Has(b.type) /\ LowerWord(Val(b.type).s[1]) = "tv"
            National(b) == Has(b.market) /\ LowerWord(Val(b.market).s[1]) = "national"
            TvNational(b) == Tv(b) /\ National(b)
            chosen == IF FirstSuch(list, TvNational) > 0 THEN list[FirstSuch(list, TvNational)]
                      ELSE IF FirstSuch(list, Tv) > 0 THEN list[FirstSuch(list, Tv)]
                      ELSE IF FirstSuch(list, National) > 0
                           THEN list[FirstSuch(list, National)]
                      ELSE list[1]
        IN /\ pc = "get_primary_broadcast" =>
                  /\ result.raised = ""
                  /\ result.value = IF Len(list) = 0 THEN <<>> ELSE <<chosen>>
           /\ (pc = "get_game_details" /\ game_details.raised = "") =>
                  IF Len(list) = 0
                  THEN /\ game_details.value.broadcast = None
                       /\ game_details.value.broadcast_market = None
                       /\ game_details.value.broadcast_type = None
                  ELSE /\ game_details.value.broadcast = MemberOrNone(chosen.media)
                       /\ game_details.value.broadcast_market = MemberOrNone(chosen.market)
                       /\ game_details.value.broadcast_type = MemberOrNone(chosen.type)

\* C10: a document without gameInfo.venue takes venue_name, venue_city and
\* venue_state from the top-level venue, else from header.competitions[0].venue.
C10_VenueFallback ==
    (/\ pc = "get_game_details" /\ game_details.raised = ""
     /\ HasCompetition(Val(doc_file)) /\ Has(Competition(Val(doc_file)).venue)
     /\ ~Has(Val(doc_file).venue)
     /\ ~(Has(Val(doc_file).gameInfo) /\ Has(Val(Val(doc_file).gameInfo).venue)))
    => LET venue == Val(Competition(Val(doc_file)).venue)
       IN /\ game_details.value.venue_name = venue.fullName
          /\ game_details.value.venue_city = venue.city
          /\ game_details.value.venue_state = venue.state

\* the member is there and is neither null nor empty
NonEmpty(o) == Has(o) /\ Truthy(Val(o))

\* the first non-empty identifier among gameId, header.id,
\* header.competitions[0].id and the file name
FirstNonEmptyId(doc, fn) ==
    IF NonEmpty(doc.gameId) THEN Val(doc.gameId)
    ELSE IF Has(doc.header) /\ NonEmpty(Val(doc.header).id) THEN Val(Val(doc.header).id)
    ELSE IF HasCompetition(doc) /\ NonEmpty(Competition(doc).id)
         THEN Val(Competition(doc).id)
    ELSE IF NonEmpty(fn) THEN Val(fn)
    ELSE Txt("unknown")

\* C11: get_game_details resolves game_id as the first non-empty value among
\* gameId, header.id, header.competitions[0].id and the file name; a place that
\* is present but null or empty does not block a later one, and 'unknown' is
\* the result only when none of the four has a value.
C11_GameIdResolution ==
    (pc = "get_game_details" /\ game_details.raised = "")
    => game_details.value.game_id = FirstNonEmptyId(Val(doc_file), filename)

\* every entry of the plays array, if there is one, is a mapping
PlaysAreMappings(doc) ==
    \A i \in 1..Len(ListOf(doc.plays)) : Val(doc.plays)[i].kind = "dict"

\* C12: on a mapping whose optional paths are absent or empty in any
\* combination (a header without competitions or with the empty list, no
\* gameInfo, boxscore, plays or broadcasts) get_game_details returns without
\* raising, and the fields whose paths are absent are null.
C12_AbsentPathsGiveNulls ==
    (pc = "get_game_details" /\ PlaysAreMappings(Val(doc_file)))
    => /\ game_details.raised = ""
       /\ ~Has(VenueData(Val(doc_file))) =>
              /\ game_details.value.venue_id = None
              /\ game_details.value.venue_name = None
              /\ game_details.value.venue_city = None
              /\ game_details.value.venue_state = None
       /\ ~HasCompetition(Val(doc_file)) => game_details.value.teams = <<>>
       /\ (/\ ListOf(Val(doc_file).broadcasts) = <<>>
           /\ HasCompetition(Val(doc_file))
                  => ListOf(Competition(Val(doc_file)).broadcasts) = <<>>
           /\ Has(Val(doc_file).gameInfo)
                  => ListOf(Val(Val(doc_file).gameInfo).broadcasts) = <<>>)
           => /\ game_details.value.broadcast = None
              /\ game_details.value.broadcast_market = None
              /\ game_details.value.broadcast_type = None

\* C13: get_game_details is idempotent: a second call on the same raw
\* document, and a second call on the very object the first call processed
\* (and changed in place), return what the first call returned.
C13_Idempotent ==
    pc = "get_game_details_again" =>
        /\ details_again = game_details
        /\ get_game_details(Val(doc_file), filename).value.details = game_details.value

\* the second call ran on a document the first call had changed in place
C13_Witness ==
    /\ pc = "get_game_details_again"
    /\ details_again.raised = ""
    /\ Val(game_data) # Val(doc_file)
    /\ Val(Val(game_data).plays)[1].team = Some([id |-> StrV(<<"5", "2">>), name |-> Txt("Home")])

\* the call extracted the event of a stored document that has a box score
ExtractedBox ==
    /\ Processed
    /\ Has(doc_file) /\ Val(doc_file).kind = "dict" /\ Has(Val(doc_file).boxscore)

\* the competitors of the header that have a team mapping
HeaderCompetitors ==
    IF HasCompetition(Val(doc_file)) /\ Has(Competition(Val(doc_file)).competitors)
    THEN SelectSeq(Val(Competition(Val(doc_file)).competitors), LAMBDA c : Has(c.team))
    ELSE <<>>

\* C15: in every team stat row whose team id is the id of a header team, PTS
\* is that team's header score as an integer; a PTS statistic of the box
\* score with another value does not replace it.
C15_HeaderScoreIsPts ==
    ExtractedBox =>
        \A i \in 1..Len(BoxTeams(Val(doc_file))) :
            \A k \in 1..Len(HeaderCompetitors) :
                (/\ Val(HeaderCompetitors[k].team).id = TeamField(BoxTeams(Val(doc_file))[i], "id")
                 /\ ~IntFails(HeaderCompetitors[k].score))
                => /\ "PTS" \in DOMAIN result.value.data.team_stats[i]
                   /\ result.value.data.team_stats[i].PTS
                          = IntV(IntOf(HeaderCompetitors[k].score))

\* the header says 7 and the first statistic of the box score is PTS = 9
C15_Witness ==
    /\ ExtractedBox
    /\ Len(HeaderCompetitors) = 1
    /\ HeaderCompetitors[1].score = StrV(<<"7">>)
    /\ Len(BoxTeams(Val(doc_file))) = 1
    /\ Len(BoxTeams(Val(doc_file))[1].statistics) > 0
    /\ BoxTeams(Val(doc_file))[1].statistics[1] = TeamStatEntry("PTS", StrV(<<"9">>))
    /\ TeamRow.PTS = IntV(7)

\* the PTS values the statistics of a team section list
BoxScorePts(team_data) ==
    {ToNumeric(team_data.statistics[j].displayValue) :
        j \in {x \in 1..Len(team_data.statistics) :
                   team_data.statistics[x].abbreviation = Txt("PTS")}}

\* C25: in a team stat row whose header team has no score, or a score that is
\* no integer, PTS is not a made-up zero: the row has no PTS, a null PTS, or
\* the PTS value of the box score.
C25_NoFabricatedZero ==
    ExtractedBox =>
        \A i \in 1..Len(BoxTeams(Val(doc_file))) :
            \A k \in 1..Len(HeaderCompetitors) :
                (/\ Val(HeaderCompetitors[k].team).id = TeamField(BoxTeams(Val(doc_file))[i], "id")
                 /\ IntFails(HeaderCompetitors[k].score))
                => \/ "PTS" \notin DOMAIN result.value.data.team_stats[i]
                   \/ IsNull(result.value.data.team_stats[i].PTS)
                   \/ result.value.data.team_stats[i].PTS
                          \in BoxScorePts(BoxTeams(Val(doc_file))[i])

\* C26: get_game_details leaves the document it is given as it was: after
\* the call every entry of plays, with its team name and its athletes'
\* displayName, is what the stored document holds.
C26_DocumentUnchanged ==
    pc = "get_game_details" => Val(game_data).plays = Val(doc_file).plays

\* the stored document lists plays, and an entry that is no mapping
HasOtherPlay ==
    /\ Has(doc_file) /\ Val(doc_file).kind = "dict" /\ Has(Val(doc_file).plays)
    /\ \E i \in 1..Len(Val(Val(doc_file).plays)) : Val(Val(doc_file).plays)[i].kind # "dict"

\* the entries of the stored plays that are mappings
MappingPlays == SelectSeq(Val(Val(doc_file).plays), LAMBDA play : play.kind = "dict")

\* C28: an entry of plays that is no mapping (null, a number, a string) is
\* skipped: get_game_details returns, the event is processed, and the
\* play-by-play rows are those of the entries that are mappings.
C28_OtherPlaysSkipped ==
    HasOtherPlay =>
        /\ pc = "get_game_details" => game_details.raised = ""
        /\ Returned =>
               /\ result.value.processed
               /\ Len(result.value.data.play_by_play) = Len(MappingPlays)

\* the record of the one athlete as it is when the renaming starts
PlayerBeforeRename ==
    PlayerComposites(AddStats(<<>>, StatGroup.keys, StatGroup.labels,
                              StatGroup.athletes[1].stats, 1), StatDnp, 1)

\* the record of the first team section as it is when the renaming starts
TeamBeforeRename ==
    TeamStatLoop([game_id |-> None, team_id |-> None, team_name |-> None,
                  team_abbreviation |-> None, home_away |-> None],
                 BoxTeams(Val(doc_file))[1].statistics, 1).value

\* C16: the renaming of verbose labels and of camelCase player keys to the
\* canonical names happens only when the canonical name is not yet in the
\* record: in team rows and in player rows a value already stored under a
\* canonical name is not overwritten by the value of an alias.
C16_RenameNeverOverwrites ==
    /\ (ExtractedBox /\ Len(BoxTeams(Val(doc_file))) > 0) =>
           \A k \in 1..Len(verbose_map) :
               verbose_map[k][2] \in DOMAIN TeamBeforeRename
               => TeamRow[verbose_map[k][2]] = TeamBeforeRename[verbose_map[k][2]]
    /\ (Processed /\ HasStatInput /\ ~StatDnp) =>
           \A k \in 1..Len(rename_map) :
               rename_map[k][2] \in DOMAIN PlayerBeforeRename
               => PlayerRow[rename_map[k][2]] = PlayerBeforeRename[rename_map[k][2]]

\* the statistics of the first team section of the document
TeamStatistics == BoxTeams(Val(doc_file))[1].statistics

\* entry i is the first one of its column, and the header gave the row no PTS
FirstOfColumn(i) ==
    /\ \A j \in 1..(i - 1) : ColumnName(TeamStatistics[j]) # ColumnName(TeamStatistics[i])
    /\ ColumnName(TeamStatistics[i]) = Txt("PTS") => Len(HeaderCompetitors) = 0

\* the name the column of entry i has in the finished row
FinalColumn(i) ==
    LET col == ColumnName(TeamStatistics[i]).s[1]
    IN IF \E k \in 1..Len(verbose_map) : verbose_map[k][1] = col
       THEN LET k == CHOOSE k \in 1..Len(verbose_map) : verbose_map[k][1] = col
            IN IF \E j \in 1..Len(TeamStatistics) :
                      ColumnName(TeamStatistics[j]) = Txt(verbose_map[k][2])
               THEN col ELSE verbose_map[k][2]
       ELSE col

\* C17: a statistic that cannot be parsed (a team statistic whose
\* displayValue is missing, null or not a string) is null for that statistic
\* alone: the other statistics of the record are still there and the event
\* is returned with processed = true.
C17_BadStatIsNullAlone ==
    (/\ pc \in {"process_game_data", "process_game_with_season"}
     /\ Has(doc_file) /\ Val(doc_file).kind = "dict" /\ Has(Val(doc_file).boxscore)
     /\ Len(BoxTeams(Val(doc_file))) = 1
     /\ PlaysAreMappings(Val(doc_file)))
    => /\ Processed
       /\ \A i \in 1..Len(TeamStatistics) :
              FirstOfColumn(i) =>
                  /\ FinalColumn(i) \in DOMAIN TeamRow
                  /\ TeamStatistics[i].displayValue.t # "str"
                         => IsNull(TeamRow[FinalColumn(i)])

\* C18: when header.competitions[0] lists no competitors, get_game_details
\* builds the team entries from the team sections of the box score: id, name
\* and home/away from the section, score zero and winner false.
C18_TeamsFromBoxScore ==
    (/\ pc = "get_game_details" /\ game_details.raised = ""
     /\ HasCompetition(Val(doc_file))
     /\ Len(ListOf(Competition(Val(doc_file)).competitors)) = 0)
    => /\ Len(game_details.value.teams) = Len(BoxTeams(Val(doc_file)))
       /\ \A i \in 1..Len(BoxTeams(Val(doc_file))) :
              /\ game_details.value.teams[i].id = TeamField(BoxTeams(Val(doc_file))[i], "id")
              /\ game_details.value.teams[i].name
                     = TeamField(BoxTeams(Val(doc_file))[i], "displayName")
              /\ game_details.value.teams[i].home_away = BoxTeams(Val(doc_file))[i].homeAway
              /\ game_details.value.teams[i].score \in {IntV(0), StrV(<<"0">>)}
              /\ game_details.value.teams[i].winner = BoolV(FALSE)

\* the type member of a status member, if both are there
TypeOf(status) == IF Has(status) THEN Val(status).type ELSE Absent

\* the status type of the header's first competition or, without one, the
\* one of the top-level status
FirstStatusType(doc) ==
    IF HasCompetition(doc) /\ Has(TypeOf(Competition(doc).status))
    THEN TypeOf(Competition(doc).status)
    ELSE TypeOf(doc.status)

\* C19: get_game_details takes the status type from
\* header.competitions[0].status.type or, when that path has none, from the
\* top-level status.type; status is its name and completed its completed
\* flag; without either, status is null and completed is false, never null.
C19_StatusResolution ==
    (pc = "get_game_details" /\ game_details.raised = "")
    => LET type == FirstStatusType(Val(doc_file))
       IN /\ game_details.value.status
                 = IF Has(type) /\ Has(Val(type).name) THEN Val(Val(type).name) ELSE None
          /\ game_details.value.completed
                 = IF Has(type) /\ Has(Val(type).completed) THEN Val(Val(type).completed)
                   ELSE BoolV(FALSE)

\* what a team entry or a teams_info row has to say about competitor c
GroupsCarried(c, row) ==
    LET groups == Val(c.team).groups
    IN /\ {"conference_id", "conference_slug", "division"} \subseteq DOMAIN row
       /\ row["conference_id"] = IF Has(groups) THEN Val(groups).id ELSE None
       /\ row["conference_slug"] = IF Has(groups) THEN Val(groups).slug ELSE None
       /\ row["division"] = IF Has(groups) /\ Has(Val(groups).parent)
                            THEN Val(Val(groups).parent).name ELSE None

\* C20: every team entry of get_game_details carries conference_id,
\* conference_slug and division from the competitor's team.groups (id, slug,
\* parent.name) and linescores as the list of the per-period display values
\* in order; process_game_data carries them into the teams_info rows, the
\* linescores as one comma-separated string.
C20_ConferenceAndLinescores ==
    /\ (pc = "get_game_details" /\ game_details.raised = "") =>
           /\ Len(game_details.value.teams) = Len(HeaderCompetitors)
           /\ \A i \in 1..Len(HeaderCompetitors) :
                  /\ GroupsCarried(HeaderCompetitors[i], game_details.value.teams[i])
                  /\ Has(HeaderCompetitors[i].linescores) =>
                         /\ "linescores" \in DOMAIN game_details.value.teams[i]
                         /\ game_details.value.teams[i].linescores
                                = Val(HeaderCompetitors[i].linescores)
    /\ (Processed /\ Has(doc_file) /\ Val(doc_file).kind = "dict") =>
           /\ Len(result.value.data.teams_info) = Len(HeaderCompetitors)
           /\ \A i \in 1..Len(HeaderCompetitors) :
                  /\ GroupsCarried(HeaderCompetitors[i], result.value.data.teams_info[i])
                  /\ Has(HeaderCompetitors[i].linescores) =>
                         /\ "linescores" \in DOMAIN result.value.data.teams_info[i]
                         /\ result.value.data.teams_info[i].linescores
                                = StrV(JoinComma(Val(HeaderCompetitors[i].linescores), 1))

\* ----------------------------------------------------- the fetch: the claims
\* the tasks that hold a permit
Holders == {g \in GameIds : tasks[g] \in {"sleeping", "fetching"}}

\* C27: during fetch_games_batch at most concurrency fetches are in flight
\* at any time; a permit comes back when the fetch succeeds, when it gets
\* another status and when it raises, so that the permits left and the tasks
\* holding one always add up to concurrency; every requested event without a
\* raw file is attempted in the end.
C27_BoundedAndAttempted ==
    /\ [](/\ Cardinality(Holders) <= concurrency
          /\ semaphore + Cardinality(Holders) = concurrency)
    /\ \A g \in GameIds :
           (fpc = "start" /\ g \in FilteredList) ~> (tasks[g] \in {"fetching", "done"})

\* one permit: a fetch has raised, the next one is in flight with the permit
\* that came back, a third event waits
C27_Witness ==
    /\ concurrency = 1 /\ semaphore = 0
    /\ \E g \in GameIds : tasks[g] = "done" /\ statuses[g] = "exception"
    /\ \E g \in GameIds : tasks[g] = "fetching"
    /\ \E g \in GameIds : tasks[g] = "waiting"

\* -------------------------------------------------- the tables: the claims
\* the target type of the column is Int64
ToInt64Column(c) == c \in id_columns \/ c \in Int64Columns(table_type)

\* a value of the column is text that is no whole number
ConversionFails(c) ==
    \E i \in 1..Len(table_in) :
        /\ table_in[i][c].t = "str" /\ Len(table_in[i][c].s) > 0
        /\ IsNull(ToNumeric(table_in[i][c])) \/ HasFraction(ToNumeric(table_in[i][c]))

\* the same value, null being null whether it is None or NaN
SameValue(a, b) == a = b \/ (IsNull(a) /\ IsNull(b))

\* C21: in optimize_dataframe_dtypes a column whose conversion to its target
\* type fails (an id column with identifiers that are not purely numeric)
\* keeps its original values, and the other columns are still converted.
C21_FailedColumnKept ==
    tpc = "optimize_dataframe_dtypes" =>
        /\ Len(table_result) = Len(table_in)
        /\ \A i \in 1..Len(table_in) : \A c \in DOMAIN table_in[i] :
               ToInt64Column(c) =>
                   SameValue(table_result[i][c],
                             IF ConversionFails(c) THEN EmptyToNaN(table_in[i][c])
                             ELSE ToInt64(ToNumeric(table_in[i][c])))

\* the rows of the input table whose three columns derived from col are filled
FilledRows(col) ==
    {i \in 1..Len(table_in) :
        /\ ~IsNull(table_in[i][col \o "_MADE"])
        /\ ~IsNull(table_in[i][col \o "_ATT"])
        /\ ~IsNull(table_in[i][col \o "_PCT"])}

\* the composite columns the claim lets remove_redundant_columns drop
Droppable ==
    {col \in {"FG", "3PT", "FT"} :
        /\ {col, col \o "_MADE", col \o "_ATT", col \o "_PCT"} \subseteq Columns(table_in)
        /\ 10 * Cardinality(FilledRows(col)) > 9 * Len(table_in)}

\* C24: remove_redundant_columns on player_stats or team_stats drops FG, 3PT
\* or FT exactly when its three derived columns exist and more than 90% of
\* the rows have all three filled (at exactly 90% the column stays); every
\* row and every other column comes back as it was.
C24_RedundantDropped ==
    (tpc = "remove_redundant_columns" /\ table_type \in {"player_stats", "team_stats"}) =>
        /\ Len(table_result) = Len(table_in)
        /\ \A i \in 1..Len(table_in) :
               /\ DOMAIN table_result[i] = (DOMAIN table_in[i]) \ Droppable
               /\ \A c \in DOMAIN table_result[i] : table_result[i][c] = table_in[i][c]

\* ten rows of which nine have the field goals parsed: FG stays, next to 3PT
C24_Witness ==
    /\ tpc = "remove_redundant_columns" /\ table_type = "player_stats"
    /\ Len(table_in) = 10
    /\ "FG_PCT" \in Columns(table_in)
    /\ Cardinality(FilledRows("FG")) = 9
    /\ {"FG", "3PT"} \subseteq DOMAIN table_result[1]

\* -------------------------------------------------- the season: the claims
\* the rows of a file of the season's directories, none without the file
FileRows(k) == IF Has(saved[k]) THEN Val(saved[k]) ELSE <<>>

\* the events whose processing returned processed = True
ProcessedGames ==
    {g \in GameIds : results[g].raised = "" /\ results[g].value # <<>>
                       /\ results[g].value.processed}

\* the rows of the collections of one kind of a set of events
RECURSIVE RowsOfGames(_, _)
RowsOfGames(games, k) ==
    IF games = {} THEN 0
    ELSE LET g == CHOOSE x \in games : TRUE
         IN Len(results[g].value.data[k]) + RowsOfGames(games \ {g}, k)

\* C23: after process_all_games, the season's table of each of the seven
\* kinds has as many rows as the collections of that kind of the processed
\* events have together, every one of them carrying the id of its event; a
\* processed event with an empty collection of some kind adds no row to that
\* table and has a summary row with processed = True and no error.
C23_RowsOfProcessedEvents ==
    (spc = "done" /\ Has(raw_files)) =>
        /\ \A k \in TableKinds :
               /\ Len(combined_dfs[k]) = RowsOfGames(ProcessedGames, k)
               /\ \A g \in ProcessedGames :
                      Cardinality({i \in 1..Len(combined_dfs[k]) :
                                      combined_dfs[k][i].game_id = IntV(GameNumber(g))})
                          = Len(results[g].value.data[k])
        /\ \A g \in ProcessedGames :
               \E i \in 1..Len(combined_dfs["game_summary"]) :
                   /\ combined_dfs["game_summary"][i].game_id \in
                          {IntV(GameNumber(g)), GameIdStr(g)}
                   /\ combined_dfs["game_summary"][i].processed = BoolV(TRUE)
                   /\ IsNull(combined_dfs["game_summary"][i].error)

\* two events were processed, one with two plays and one with three entries
\* of which two are plays, both without officials; a third event failed
C23_Witness ==
    /\ spc = "done" /\ Has(raw_files)
    /\ Cardinality(ProcessedGames) = 2
    /\ \E g \in GameIds : g \notin ProcessedGames /\ Val(raw_files)[g] = "bad"
    /\ Len(combined_dfs["play_by_play"]) = 4
    /\ Len(combined_dfs["officials"]) = 0
    /\ \A g \in ProcessedGames : Len(results[g].value.data["officials"]) = 0

\* C29: the game_summary that process_all_games returns has the rows of the
\* game_summary it writes, the rows added for the scheduled events without a
\* result among them.
C29_ReturnedIsPersisted ==
    (spc = "done" /\ Has(raw_files)) =>
        combined_dfs["game_summary"] = FileRows("game_summary")

\* C30: the statistics process_season_data returns have success_games +
\* error_games = total_games, and total_games is the number of distinct event
\* ids of the season's schedule.
C30_CountsAddUp ==
    spc = "returned" =>
        /\ season_stats.total_games =
               (IF Has(schedule_file) THEN Cardinality(Val(schedule_file)) ELSE 0)
        /\ season_stats.success_games + season_stats.error_games = season_stats.total_games

\* C22: after process_all_games has run again over a season's raw directory,
\* the file of every table kind holds only rows of this run: where the run's
\* table of a kind is empty, no rows of an earlier run are left in its file.
C22_NoStaleRows ==
    (spc = "done" /\ Has(raw_files)) =>
        \A k \in SummaryKinds : Len(combined_dfs[k]) = 0 => Len(FileRows(k)) = 0

\* the worker of event g has returned a result
Completed(g) ==
    /\ spc # "idle" /\ Has(raw_files) /\ Val(raw_files)[g] # "absent"
    /\ g \notin pending /\ g \notin crashing

\* the ids of the mappings among the entries of the raw plays array, in order
RawPlayIds(g) ==
    LET plays == ListOf(SeasonDoc(Val(raw_files)[g]).plays)
        IsMapping(p) == p.kind = "dict"
        kept == SelectSeq(plays, IsMapping)
    IN [i \in 1..Len(kept) |-> kept[i].id]

\* the rows of event g in a play-by-play table, in table order
EventPlays(table, g) ==
    LET OfEvent(r) == r.game_id \in {GameIdStr(g), IntV(GameNumber(g))}
    IN SelectSeq(table, OfEvent)

PlayIds(rows) == [i \in 1..Len(rows) |-> rows[i].play_id]

SequenceNumber(row) ==
    IF row.sequence_number.t = "str" THEN ToInt(row.sequence_number.s)
    ELSE row.sequence_number.n

\* a later row has a larger sequence number
Ascending(rows) ==
    \A i, j \in 1..Len(rows) : i < j => SequenceNumber(rows[i]) < SequenceNumber(rows[j])

\* C1: after process_all_games, the season's game-summary table holds, for
\* every event id of the schedule, a row with processed true or an error
\* string, whatever events have a raw document, none included.
C1_ScheduleReconciled ==
    (spc = "done" /\ Has(schedule_file)) =>
        \A id \in Val(schedule_file) :
            /\ Has(saved["game_summary"])
            /\ \E i \in 1..Len(Val(saved["game_summary"])) :
                   LET row == Val(saved["game_summary"])[i]
                   IN /\ row.game_id = IntV(id)
                      /\ row.processed = BoolV(TRUE) \/ row.error.t = "str"

\* C8: the play-by-play rows of an event are the mappings of its raw plays
\* array in the order of that array, in the event's own result and in the
\* season's table whatever order the workers complete in, so that the
\* sequence numbers of an event's rows ascend as they do in the raw document.
C8_PlayOrderPreserved ==
    \A g \in GameIds :
        (Completed(g) /\ results[g].value.processed) =>
            /\ PlayIds(results[g].value.data.play_by_play) = RawPlayIds(g)
            /\ Ascending(results[g].value.data.play_by_play)
            /\ spc = "done" =>
                   /\ PlayIds(EventPlays(combined_dfs["play_by_play"], g)) = RawPlayIds(g)
                   /\ Ascending(EventPlays(combined_dfs["play_by_play"], g))

\* two events with two rows each are in the season's table, and the rows of
\* the event with the larger id come first
C8_Witness ==
    /\ spc = "done" /\ Has(raw_files)
    /\ \E g, h \in GameIds :
           /\ g < h
           /\ Completed(g) /\ Completed(h)
           /\ Len(EventPlays(combined_dfs["play_by_play"], g)) = 2
           /\ Len(EventPlays(combined_dfs["play_by_play"], h)) = 2
           /\ \E i, j \in 1..Len(combined_dfs["play_by_play"]) :
                  /\ i < j
                  /\ combined_dfs["play_by_play"][i].game_id = IntV(GameNumber(h))
                  /\ combined_dfs["play_by_play"][j].game_id = IntV(GameNumber(g))

\* the future of event g was submitted and has completed
Collected(g) ==
    /\ spc # "idle" /\ Has(raw_files) /\ Val(raw_files)[g] # "absent"
    /\ g \notin pending

\* the summary rows that carry the id of event g
SummaryRowsOf(g) ==
    {i \in 1..Len(game_results["game_summary"]) :
        game_results["game_summary"][i].game_id = GameIdStr(g)}

\* C14: in process_all_games every submitted event contributes exactly one
\* game-summary row carrying its own event id, whatever the completion order;
\* an event whose worker returns a failure or whose future fails is recorded
\* with processed = false under that event's id, and the others are collected.
C14_OneRowPerEvent ==
    \A g \in GameIds :
        Collected(g) =>
            /\ Cardinality(SummaryRowsOf(g)) = 1
            /\ \A i \in SummaryRowsOf(g) :
                   game_results["game_summary"][i].processed.t = "bool"
                   /\ ((game_results["game_summary"][i].processed = BoolV(TRUE))
                        <=> (g \notin crashing /\ results[g].value.processed))

====
